---------------------------- MODULE Spec2Model ----------------------------
(***************************************************************************)
(* A model of the distributed execution substrate of cunqa:                *)
(*   - the classical channel (router/dealer mesh with per-origin demux),   *)
(*   - the file-locked JSON registries,                                    *)
(*   - the QPU server loop (listen thread, compute thread, client socket)  *)
(*     together with the QuantumTask ingress rewrite.                      *)
(* Each subsystem has its own specification over its own variables; the    *)
(* variables of the other subsystems stay at their initial values.         *)
(***************************************************************************)
EXTENDS Integers, Sequences, FiniteSets, TLC

(***************************************************************************)
(* Bounds of the model.                                                    *)
(***************************************************************************)
\* frames each peer may pass to send_info
MaxSend == 2

\* registry calls the processes may make in total
MaxCalls == 2

\* client messages the QPU's server socket may receive
MaxMsgs == 2

\* messages one QuantumTask object may be given, one after another
MaxUpdates == 2

\* rounds the executor runs, and tasks each QPU hands to it
MaxRounds == 2

\* connect calls one channel may make for one target key
MaxConnects == 2

(***************************************************************************)
(* State.                                                                  *)
(***************************************************************************)
\* classical channel
VARIABLES
    zmq_sockets,      \* per peer: its dealer map, target key -> dealer socket
    chCalls,          \* history, per peer and key: connect calls made for the key
    chCreated,        \* history, per peer and key: dealer sockets created for it
    chFirst,          \* history, per peer and key: the dealer the first call asked for
    chWire,           \* per peer: frames sent on its dealer, not yet read by B's router
    chSent,           \* history, per peer: payloads passed to send_info(., B)
    chTarget,         \* history, per peer: the target of its last send_info
    chThrown,         \* per peer: its last send_info threw
    chForced,         \* history, per peer: force_endpoint of its last connect call
    ccPc,             \* per peer: "idle", or "kernel" while execute's kernel runs
    ccTask,           \* per peer: the task of the running execute
    message_queue,    \* B's per-origin buffers: identity -> queue of payloads
    chOrigin,         \* the origin B's running recv_info waits for, or NoOrigin
    chRead,           \* history, per identity: payloads B read from the router
    chReturned        \* history, per origin: payloads returned by recv_info(origin)

chanVars == <<zmq_sockets, chCalls, chCreated, chFirst, chWire, chSent,
              chTarget, chThrown, chForced, ccPc, ccTask,
              message_queue, chOrigin, chRead, chReturned>>

\* registry
VARIABLES
    regFile,      \* the file: empty, or text that is not JSON, or a JSON object
    regLock,      \* the process holding the whole-file fcntl write lock, or NoProc
    regPc,        \* per process: where it stands in its current call
    regOp,        \* per process: the call it is running
    regJ,         \* per process: the JSON object it read and modified (j / out)
    regCalls,     \* calls started so far, over all processes
    regLin,       \* history: the calls in the order they acquired the lock
    regInitial,   \* history: the file as it was before the first call
    regFlock,     \* the process holding the flock() lock on the file, or NoProc
    regSeen,      \* history: what the last lock-free reader found in the file
    qdPc          \* qdrop --all: where it stands between its reads and its reset

regVars == <<regFile, regLock, regPc, regOp, regJ, regCalls, regLin, regInitial,
             regFlock, regSeen, qdPc>>

\* QPU server loop
VARIABLES
    message_queue_,   \* QPU::message_queue_: the messages pushed and not yet popped
    queue_mutex_,     \* QPU::queue_mutex_: the thread holding it, or NoThread
    rid_queue_,       \* Server::Impl::rid_queue_: the pending routing ids
    lpc,              \* listen thread: its position in recv_data_
    lmsg,             \* listen thread: the message recv_data returned
    cpc,              \* compute thread: its position in compute_result_
    cmsg,             \* compute thread: the message it popped
    quantum_task_,    \* compute thread: the QuantumTask it retains across messages
    received,         \* history: every client message the server socket received
    pushed,           \* history: the numbers of the messages pushed on the queue
    replies           \* history: every document handed to send_result

qpuVars == <<message_queue_, queue_mutex_, rid_queue_, lpc, lmsg, cpc, cmsg,
             quantum_task_, received, pushed, replies>>

\* one QuantumTask object and the executor behind a QC backend
VARIABLES
    qt,          \* the QuantumTask as the last update_circuit call left it
    qtPrev,      \* history: the QuantumTask before that call
    qtBody,      \* history: the message that call was given
    qtStatus,    \* how that call ended: "ok", "throw" or "crash" ("new" before any)
    qtCalls,     \* update_circuit calls made so far
    exFrom,      \* history: the QuantumTask the QC backend serialised
    exTask,      \* the QuantumTask the executor built from the serialised task
    exStatus     \* how the executor's construction ended ("none" before any)

taskVars == <<qt, qtPrev, qtBody, qtStatus, qtCalls, exFrom, exTask, exStatus>>

\* executor process and the QC simulators of its QPUs
VARIABLES
    xPc,              \* executor: "new", "loop" (in run's for), "recv" (inside recv_info), "failed"
    xMode,            \* history: how the executor was constructed
    xSeen,            \* history: communications.json as the constructor read it
    qpu_ids,          \* AerExecutor::qpu_ids
    xSockets,         \* the dealer map of the executor's channel
    xQueue,           \* the per-origin buffers of the executor's channel
    xI,               \* position of run's for loop in qpu_ids
    xGot,             \* history: <<peer, message>> for each recv_info of this round
    qpus_working,     \* run's qpus_working
    quantum_tasks,    \* run's quantum_tasks (the messages they are built from)
    xRound,           \* rounds completed
    xLog,             \* history: one record for each completed round
    toEx,             \* per QPU endpoint: frames in flight to the executor's router
    toQpu,            \* per QPU endpoint: frames in flight to that QPU's router
    qcPc,             \* per QPU: "off", "waiting", "ready", "awaiting"
    qcSockets,        \* per QPU: the dealer map of its channel
    qcSent,           \* history, per QPU: circuits handed to send_info(., "executor")
    qcGot             \* history, per QPU: results recv_info("executor") returned

execVars == <<xPc, xMode, xSeen, qpu_ids, xSockets, xQueue, xI, xGot, qpus_working,
              quantum_tasks, xRound, xLog, toEx, toQpu, qcPc, qcSockets, qcSent, qcGot>>

\* the conversion of an AER result
VARIABLES
    cvCounts,         \* the "counts" object of the result the adapter was given
    cvClbits,         \* num_clbits of the call
    cvOut,            \* the "counts" object the call left in the result
    cvCalls           \* calls made

countVars == <<cvCounts, cvClbits, cvOut, cvCalls>>

\* the choice of the local IPv4 address
VARIABLES
    ifaddr,           \* the interfaces getifaddrs() listed, in its order
    ipSkipIb,         \* whether the compiled copy of the header skips "ib" names
    ipOut,            \* what get_IP_address() returned
    ipCalls           \* calls made

netVars == <<ifaddr, ipSkipIb, ipOut, ipCalls>>

vars == <<chanVars, regVars, qpuVars, taskVars, execVars, countVars, netVars>>

\* what the actions of one subsystem leave alone
ChanFrame == UNCHANGED <<regVars, qpuVars, taskVars, execVars, countVars, netVars>>

RegFrame == UNCHANGED <<chanVars, qpuVars, taskVars, execVars, countVars, netVars>>

QpuFrame == UNCHANGED <<chanVars, regVars, taskVars, execVars, countVars, netVars>>

TaskFrame == UNCHANGED <<chanVars, regVars, qpuVars, execVars, countVars, netVars>>

ExecFrame ==
    UNCHANGED <<chanVars, qpuVars, taskVars, countVars, netVars, regLock, regPc, regOp, regJ,
                regCalls, regLin, regInitial, regFlock, regSeen, qdPc>>

CountFrame == UNCHANGED <<chanVars, regVars, qpuVars, taskVars, execVars, netVars>>

NetFrame == UNCHANGED <<chanVars, regVars, qpuVars, taskVars, execVars, countVars>>

(***************************************************************************)
(* Generic helpers.                                                        *)
(***************************************************************************)
IsPrefix(s, t) == Len(s) <= Len(t) /\ SubSeq(t, 1, Len(s)) = s

Last(s) == s[Len(s)]

Front(s) == SubSeq(s, 1, Len(s) - 1)

(***************************************************************************)
(*                       CLASSICAL CHANNEL                                 *)
(* One receiving channel B (its router socket and its per-origin buffers)  *)
(* and the peers that hold a dealer socket connected to B.                 *)
(***************************************************************************)

\* the peers that send to B; each stamps its frames with its own identity
Peers == {"tcp://A:1", "tcp://C:2"}

\* the endpoint B's router is bound to: the connect target of the peers
EndpointB == "tcp://B:3"


\* payloads: decimal-encoded measurement values
Payloads == {"0", "1"}

NoOrigin == "-"

\* no send_info yet
NoTarget == "-"

\* Impl::zmq_id: the identity a peer's dealer stamps on its frames, the id
\* the channel was built with or, built without one, its endpoint
zmq_id(p) == IF p = "tcp://C:2" THEN "C" ELSE p

\* origins B may ask for: the peers and one identity nobody sends with
Origins == {zmq_id(p) : p \in Peers} \cup {"executor"}

\* Impl::zmq_endpoint: the endpoint the peer's own router is bound to
zmq_endpoint(p) == p

\* another endpoint a peer may connect to, and the id the QC simulators
\* give to their connection to the executor
EndpointX == "tcp://X:4"

ExecutorId == "executor"

ConnectEndpoints == {EndpointB, EndpointX}

ConnectIds == {"", ExecutorId}

\* the keys the dealer map may get
TargetKeys == ConnectEndpoints \cup {ExecutorId}

\* a dealer socket: where it is connected and the identity set on it
Socket(endpoint, identity) == [endpoint |-> endpoint, identity |-> identity]

NoSocket == Socket("-", "-")

\* one channel's dealer map with its histories
Dealers(p) ==
    [sockets |-> zmq_sockets[p], calls |-> chCalls[p],
     created |-> chCreated[p], first |-> chFirst[p]]

\* the body shared by the connect overloads: a dealer is created,
\* configured, stored under the key and connected only when
\* zmq_sockets.find(key) finds nothing
find_or_create_mut_always(d, key, endpoint, identity) ==
    [sockets |-> [k \in DOMAIN d.sockets \cup {key} |->
                     IF k = key THEN Socket(endpoint, identity) ELSE d.sockets[k]],
     calls |-> [d.calls EXCEPT ![key] = @ + 1],
     created |-> [d.created EXCEPT ![key] = @ + 1],
     first |-> IF d.calls[key] = 0
               THEN [d.first EXCEPT ![key] = Socket(endpoint, identity)]
               ELSE d.first]

find_or_create(d, key, endpoint, identity) ==
    [sockets |-> IF key \in DOMAIN d.sockets THEN d.sockets
                 ELSE [k \in DOMAIN d.sockets \cup {key} |->
                          IF k = key THEN Socket(endpoint, identity)
                          ELSE d.sockets[k]],
     calls |-> [d.calls EXCEPT ![key] = @ + 1],
     created |-> IF key \in DOMAIN d.sockets THEN d.created
                 ELSE [d.created EXCEPT ![key] = @ + 1],
     first |-> IF d.calls[key] = 0
               THEN [d.first EXCEPT ![key] = Socket(endpoint, identity)]
               ELSE d.first]

\* Impl::connect(endpoint, id) on a dealer map
connect_id(p, d, endpoint, id) ==
    find_or_create(d, IF id = "" THEN endpoint ELSE id, endpoint, zmq_id(p))

\* Impl::connect(endpoint, force_endpoint) on a dealer map
connect_force(p, d, endpoint, force_endpoint) ==
    find_or_create(d, endpoint, endpoint,
                   IF force_endpoint THEN zmq_endpoint(p) ELSE zmq_id(p))

\* ClassicalChannel::connect(endpoints, force_endpoint): one call of the
\* overload above for each endpoint, in order
RECURSIVE connect_each_mut_droplast(_, _, _, _)
connect_each_mut_droplast(p, d, endpoints, force_endpoint) ==
    IF Len(endpoints) <= 1 THEN d
    ELSE connect_each_mut_droplast(p, connect_force(p, d, Head(endpoints), force_endpoint),
                                   Tail(endpoints), force_endpoint)

RECURSIVE connect_each(_, _, _, _)
connect_each(p, d, endpoints, force_endpoint) ==
    IF endpoints = <<>> THEN d
    ELSE connect_each(p, connect_force(p, d, Head(endpoints), force_endpoint),
                      Tail(endpoints), force_endpoint)

\* the channel of p takes the dealer map d
Connected(p, d) ==
    /\ \A k \in TargetKeys : d.calls[k] <= MaxConnects
    /\ zmq_sockets' = [zmq_sockets EXCEPT ![p] = d.sockets]
    /\ chCalls' = [chCalls EXCEPT ![p] = d.calls]
    /\ chCreated' = [chCreated EXCEPT ![p] = d.created]
    /\ chFirst' = [chFirst EXCEPT ![p] = d.first]

\* ClassicalChannel::Impl::Impl(id) once the router is bound to `bound`
Channel_mut_rawid(bound, id) == [zmq_endpoint |-> bound, zmq_id |-> id]

Channel(bound, id) ==
    [zmq_endpoint |-> bound, zmq_id |-> IF id = "" THEN bound ELSE id]

\* what AerCCSimulator::execute reads of its task
CcTask(sending_to, is_dynamic) == [sending_to |-> sending_to, is_dynamic |-> is_dynamic]

NoCcTask == CcTask(<<>>, FALSE)

CcTasks ==
    {CcTask(l, d) : l \in {<<>>, <<EndpointB>>, <<EndpointX>>, <<EndpointB, EndpointX>>,
                           <<EndpointX, EndpointB>>, <<EndpointB, EndpointB>>},
                    d \in BOOLEAN}

\* the channels an AerCCSimulator holds: built without an id
CcPeers == {p \in Peers : Channel(zmq_endpoint(p), "").zmq_id = zmq_id(p)}

ChanInit ==
    /\ zmq_sockets = [p \in Peers |-> [k \in {} |-> NoSocket]]
    /\ chCalls = [p \in Peers |-> [k \in TargetKeys |-> 0]]
    /\ chCreated = [p \in Peers |-> [k \in TargetKeys |-> 0]]
    /\ chFirst = [p \in Peers |-> [k \in TargetKeys |-> NoSocket]]
    /\ chWire = [p \in Peers |-> <<>>]
    /\ chSent = [p \in Peers |-> <<>>]
    /\ chTarget = [p \in Peers |-> NoTarget]
    /\ chThrown = [p \in Peers |-> FALSE]
    /\ chForced = [p \in Peers |-> FALSE]
    /\ ccPc = [p \in Peers |-> "idle"]
    /\ ccTask = [p \in Peers |-> NoCcTask]
    /\ message_queue = [o \in Origins |-> <<>>]
    /\ chOrigin = NoOrigin
    /\ chRead = [o \in Origins |-> <<>>]
    /\ chReturned = [o \in Origins |-> <<>>]

\* ClassicalChannel::connect(endpoint, id)
connect(p, endpoint, id) ==
    /\ Connected(p, connect_id(p, Dealers(p), endpoint, id))
    /\ UNCHANGED <<chWire, chSent, chTarget, chThrown, chForced, ccPc, ccTask,
                   message_queue, chOrigin, chRead, chReturned>>
    /\ ChanFrame

\* ClassicalChannel::connect(endpoint, force_endpoint)
connect_forced(p, endpoint, force_endpoint) ==
    /\ Connected(p, connect_force(p, Dealers(p), endpoint, force_endpoint))
    /\ chForced' = [chForced EXCEPT ![p] = force_endpoint]
    /\ UNCHANGED <<chWire, chSent, chTarget, chThrown, ccPc, ccTask,
                   message_queue, chOrigin, chRead, chReturned>>
    /\ ChanFrame

\* ClassicalChannel::connect(endpoints, force_endpoint)
connect_all(p, endpoints, force_endpoint) ==
    /\ Connected(p, connect_each(p, Dealers(p), endpoints, force_endpoint))
    /\ chForced' = [chForced EXCEPT ![p] = force_endpoint]
    /\ UNCHANGED <<chWire, chSent, chTarget, chThrown, ccPc, ccTask,
                   message_queue, chOrigin, chRead, chReturned>>
    /\ ChanFrame

\* Impl::send(data, target) on the dealer map and the frames in flight to
\* target: without a dealer keyed target the call throws before it touches
\* anything, with one the frame joins the dealer's connection, which
\* delivers in order
send_frame_mut_implicit(sockets, wire, identity, data, target) ==
    IF target \notin DOMAIN sockets
    THEN [sockets |-> [k \in DOMAIN sockets \cup {target} |->
                          IF k = target THEN Socket(target, identity) ELSE sockets[k]],
          wire |-> Append(wire, data), thrown |-> FALSE]
    ELSE [sockets |-> sockets, wire |-> Append(wire, data), thrown |-> FALSE]

send_frame(sockets, wire, identity, data, target) ==
    IF target \notin DOMAIN sockets
    THEN [sockets |-> sockets, wire |-> wire, thrown |-> TRUE]
    ELSE [sockets |-> sockets, wire |-> Append(wire, data), thrown |-> FALSE]

\* ClassicalChannel::send_info(data, target); the frames to EndpointB are
\* the ones followed on the wire
send(p, data, target) ==
    /\ Len(chSent[p]) < MaxSend
    /\ LET r == send_frame(zmq_sockets[p], chWire[p], zmq_id(p), data, target) IN
        /\ zmq_sockets' = [zmq_sockets EXCEPT ![p] = r.sockets]
        /\ chWire' = [chWire EXCEPT ![p] = IF target = EndpointB THEN r.wire ELSE @]
        /\ chSent' = [chSent EXCEPT ![p] =
                         IF target = EndpointB /\ ~r.thrown THEN Append(@, data) ELSE @]
        /\ chThrown' = [chThrown EXCEPT ![p] = r.thrown]
    /\ chTarget' = [chTarget EXCEPT ![p] = target]
    /\ UNCHANGED <<chCalls, chCreated, chFirst, chForced, ccPc, ccTask,
                   message_queue, chOrigin, chRead, chReturned>>
    /\ ChanFrame

\* AerCCSimulator::execute, lines 43-44: connect(sending_to, false), then
\* the kernel starts
cc_execute(p, task) ==
    /\ ccPc[p] = "idle"
    /\ Connected(p, connect_each(p, Dealers(p), task.sending_to, FALSE))
    /\ chForced' = [chForced EXCEPT ![p] = FALSE]
    /\ ccPc' = [ccPc EXCEPT ![p] = "kernel"]
    /\ ccTask' = [ccTask EXCEPT ![p] = task]
    /\ UNCHANGED <<chWire, chSent, chTarget, chThrown,
                   message_queue, chOrigin, chRead, chReturned>>
    /\ ChanFrame

\* the kernel of a dynamic task sends a measurement:
\* send_measure(measurement, target) is send(std::to_string(measurement), target)
cc_send_measure(p, measurement, target) ==
    /\ ccPc[p] = "kernel"
    /\ ccTask[p].is_dynamic
    /\ send(p, measurement, target)

\* lines 48-52: simulate returns and execute with it
cc_return(p) ==
    /\ ccPc[p] = "kernel"
    /\ ccPc' = [ccPc EXCEPT ![p] = "idle"]
    /\ ccTask' = [ccTask EXCEPT ![p] = NoCcTask]
    /\ UNCHANGED <<zmq_sockets, chCalls, chCreated, chFirst, chWire, chSent, chTarget,
                   chThrown, chForced, message_queue, chOrigin, chRead, chReturned>>
    /\ ChanFrame

\* Impl::recv(origin), entry: a stored frame of origin is popped and
\* returned, otherwise the call enters its receive loop
recv_enter_mut_lifo(origin) ==
    /\ chOrigin = NoOrigin
    /\ IF message_queue[origin] # <<>>
       THEN /\ chReturned' = [chReturned EXCEPT ![origin] =
                                 Append(@, Last(message_queue[origin]))]
            /\ message_queue' = [message_queue EXCEPT ![origin] = Front(@)]
            /\ UNCHANGED chOrigin
       ELSE /\ chOrigin' = origin
            /\ UNCHANGED <<chReturned, message_queue>>
    /\ UNCHANGED <<zmq_sockets, chCalls, chCreated, chFirst, chWire, chSent,
                   chTarget, chThrown, chForced, ccPc, ccTask, chRead>>
    /\ ChanFrame

recv_enter(origin) ==
    /\ chOrigin = NoOrigin
    /\ IF message_queue[origin] # <<>>
       THEN /\ chReturned' = [chReturned EXCEPT ![origin] =
                                 Append(@, Head(message_queue[origin]))]
            /\ message_queue' = [message_queue EXCEPT ![origin] = Tail(@)]
            /\ UNCHANGED chOrigin
       ELSE /\ chOrigin' = origin
            /\ UNCHANGED <<chReturned, message_queue>>
    /\ UNCHANGED <<zmq_sockets, chCalls, chCreated, chFirst, chWire, chSent,
                   chTarget, chThrown, chForced, ccPc, ccTask, chRead>>
    /\ ChanFrame

\* Impl::recv(origin), one turn of the loop: the router hands over the next
\* frame of some connected peer (fair-queued, so any peer with a frame in
\* flight); a frame of origin is returned, any other is buffered under its
\* sender identity
recv_frame_mut_wrongkey(p) ==
    /\ chOrigin # NoOrigin
    /\ chWire[p] # <<>>
    /\ chWire' = [chWire EXCEPT ![p] = Tail(@)]
    /\ chRead' = [chRead EXCEPT ![zmq_id(p)] = Append(@, Head(chWire[p]))]
    /\ IF zmq_id(p) = chOrigin
       THEN /\ chReturned' = [chReturned EXCEPT ![chOrigin] = Append(@, Head(chWire[p]))]
            /\ chOrigin' = NoOrigin
            /\ UNCHANGED message_queue
       ELSE /\ message_queue' = [message_queue EXCEPT ![chOrigin] =
                                    Append(@, Head(chWire[p]))]
            /\ UNCHANGED <<chReturned, chOrigin>>
    /\ UNCHANGED <<zmq_sockets, chCalls, chCreated, chFirst, chSent, chTarget, chThrown,
                   chForced, ccPc, ccTask>>
    /\ ChanFrame

recv_frame(p) ==
    /\ chOrigin # NoOrigin
    /\ chWire[p] # <<>>
    /\ chWire' = [chWire EXCEPT ![p] = Tail(@)]
    /\ chRead' = [chRead EXCEPT ![zmq_id(p)] = Append(@, Head(chWire[p]))]
    /\ IF zmq_id(p) = chOrigin
       THEN /\ chReturned' = [chReturned EXCEPT ![chOrigin] = Append(@, Head(chWire[p]))]
            /\ chOrigin' = NoOrigin
            /\ UNCHANGED message_queue
       ELSE /\ message_queue' = [message_queue EXCEPT ![zmq_id(p)] =
                                    Append(@, Head(chWire[p]))]
            /\ UNCHANGED <<chReturned, chOrigin>>
    /\ UNCHANGED <<zmq_sockets, chCalls, chCreated, chFirst, chSent, chTarget, chThrown,
                   chForced, ccPc, ccTask>>
    /\ ChanFrame

\* the connect calls a channel may make
ConnectNext ==
    \/ \E p \in Peers, e \in ConnectEndpoints, id \in ConnectIds : connect(p, e, id)
    \/ \E p \in Peers, e \in ConnectEndpoints, f \in BOOLEAN : connect_forced(p, e, f)
    \/ \E p \in Peers, e1 \in ConnectEndpoints, e2 \in ConnectEndpoints, f \in BOOLEAN :
          connect_all(p, <<e1, e2>>, f)

\* the CC simulators at work
CcNext ==
    \/ \E p \in CcPeers, t \in CcTasks : cc_execute(p, t)
    \/ \E p \in CcPeers, m \in Payloads, t \in ConnectEndpoints : cc_send_measure(p, m, t)
    \/ \E p \in CcPeers : cc_return(p)

ChanNext ==
    \/ \E p \in Peers : connect(p, EndpointB, "")
    \/ \E p \in Peers, d \in Payloads, t \in ConnectEndpoints : send(p, d, t)
    \/ \E o \in Origins : recv_enter(o)
    \/ \E p \in Peers : recv_frame(p)


(***************************************************************************)
(*                            REGISTRY                                     *)
(* Processes that run write_on_file / remove_from_file on one registry     *)
(* file. A key is the character sequence <job>_<pid>; the file is either   *)
(* empty (just created, or just truncated) or holds a JSON object.         *)
(***************************************************************************)

Procs == {1, 2, 3}

NoProc == 0

\* the environment of each process: what getenv returns for the two SLURM
\* variables (a null pointer when the variable is not set)
NoEnv == [set |-> FALSE, value |-> <<>>]

Env(value) == [set |-> TRUE, value |-> value]

JobEnv(p) ==
    IF p = 1 THEN NoEnv ELSE IF p = 2 THEN Env(<<"1">>) ELSE Env(<<"1", "2">>)

PidEnv(p) ==
    IF p = 1 THEN Env(<<"7">>) ELSE IF p = 2 THEN NoEnv ELSE Env(<<"9">>)

Unknown == <<"U", "N", "K", "N", "O", "W", "N">>

\* job_id of write_on_file, as characters
JobOf(p) == IF JobEnv(p).set THEN JobEnv(p).value ELSE Unknown

\* local_id of write_on_file, as characters
PidOf(p) == IF PidEnv(p).set THEN PidEnv(p).value ELSE Unknown

\* the suffixes write_on_file is called with: none, and a group id
Suffixes == {<<>>, <<"g">>}

\* write_on_file's task_id
task_id_mut_nosuffix(p, suffix) == JobOf(p) \o <<"_">> \o PidOf(p)

task_id(p, suffix) ==
    IF suffix = <<>> THEN JobOf(p) \o <<"_">> \o PidOf(p)
    ELSE JobOf(p) \o <<"_">> \o PidOf(p) \o <<"_">> \o suffix

\* a key present in the file before any modelled call
ForeignKey == <<"2", "_", "5">>

RegKeys == {task_id(p, x) : p \in Procs, x \in Suffixes} \cup {ForeignKey}

\* the entries processes write
CommEntry(endpoint) == [communications_endpoint |-> endpoint]

Entries == {CommEntry("e1"), CommEntry("e2")}

\* prefixes given to remove_from_file (job ids, as qdrop passes them)
RmKeys == {<<"1">>, <<"1", "2">>, <<"3">>}

EmptyObject == [k \in {} |-> CommEntry("e1")]

NoOp == [name |-> "none", key |-> <<>>, entry |-> CommEntry("e1"), suffix |-> <<>>]

\* it.key().rfind(rm_key, 0) == 0: the key starts with rm_key
StartsWith_mut_equal(key, rm_key) == key = rm_key

StartsWith(key, rm_key) ==
    Len(rm_key) <= Len(key) /\ SubSeq(key, 1, Len(rm_key)) = rm_key

\* j[task_id] = local_data
SetKey(j, key, entry) ==
    [k \in DOMAIN j \cup {key} |-> IF k = key THEN entry ELSE j[k]]

\* the loop of remove_from_file: keep the keys that do not start with rm_key
RemovePrefix(j, rm_key) ==
    [k \in {x \in DOMAIN j : ~StartsWith(x, rm_key)} |-> j[k]]

\* what one call makes of the object it read
ApplyOp(j, op) ==
    IF op.name = "write" THEN SetKey(j, op.key, op.entry)
    ELSE RemovePrefix(j, op.key)

\* the states of the file: no content; content that does not parse; the
\* dump of a JSON object
FileEmpty == [empty |-> TRUE, valid |-> TRUE, obj |-> EmptyObject]

FileInvalid == [empty |-> FALSE, valid |-> FALSE, obj |-> EmptyObject]

FileOf(j) == [empty |-> FALSE, valid |-> TRUE, obj |-> j]

\* read_json, line 84: JSON::parse(content, nullptr, false) throws nothing
\* and returns a discarded value for content that is not JSON
is_discarded(f) == ~f.empty /\ ~f.valid

\* read_json: an empty file reads as the empty object
read_json(f) == IF f.empty THEN EmptyObject ELSE f.obj

\* what a lock-free reader holds: nothing yet, or the file as it found it
NotRead == [read |-> FALSE, file |-> FileEmpty]

Seen(f) == [read |-> TRUE, file |-> f]

\* write() of the dump of j at offset 0: on an empty file the file becomes
\* the dump; on a file that already holds text the dump overlays it, which
\* leaves the dump if it is at least as long and otherwise the dump
\* followed by the rest of the old text, which is not JSON
Overlay(f, j) ==
    IF f.empty THEN {FileOf(j)} ELSE {FileOf(j), FileInvalid}

RegInit ==
    /\ regFile \in {FileEmpty, FileInvalid,
                    FileOf(SetKey(EmptyObject, ForeignKey, CommEntry("e1")))}
    /\ regLock = NoProc
    /\ regPc = [p \in Procs |-> "idle"]
    /\ regOp = [p \in Procs |-> NoOp]
    /\ regJ = [p \in Procs |-> EmptyObject]
    /\ regCalls = 0
    /\ regLin = <<>>
    /\ regInitial = regFile
    /\ regFlock = NoProc
    /\ regSeen = NotRead
    /\ qdPc = "idle"

\* a process enters write_on_file(entry, path, suffix) and opens the file
write_on_file(p, entry, suffix) ==
    /\ regPc[p] = "idle"
    /\ regCalls < MaxCalls
    /\ regCalls' = regCalls + 1
    /\ regOp' = [regOp EXCEPT ![p] = [name |-> "write", key |-> task_id(p, suffix),
                                      entry |-> entry, suffix |-> suffix]]
    /\ regPc' = [regPc EXCEPT ![p] = "opened"]
    /\ UNCHANGED <<regFile, regLock, regJ, regLin, regInitial>>
    /\ UNCHANGED <<regFlock, regSeen, qdPc>>
    /\ RegFrame

\* a process enters remove_from_file(path, rm_key) and opens the file
remove_from_file(p, rm_key) ==
    /\ regPc[p] = "idle"
    /\ regCalls < MaxCalls
    /\ regCalls' = regCalls + 1
    /\ regOp' = [regOp EXCEPT ![p] = [name |-> "remove", key |-> rm_key,
                                      entry |-> CommEntry("e1"), suffix |-> <<>>]]
    /\ regPc' = [regPc EXCEPT ![p] = "opened"]
    /\ UNCHANGED <<regFile, regLock, regJ, regLin, regInitial>>
    /\ UNCHANGED <<regFlock, regSeen, qdPc>>
    /\ RegFrame

\* lock(fd): fcntl(F_SETLKW) returns once no other process holds the lock
lock_mut_nowait(p) ==
    /\ regPc[p] = "opened"
    /\ regLock' = p
    /\ regPc' = [regPc EXCEPT ![p] = "locked"]
    /\ regLin' = Append(regLin, regOp[p])
    /\ UNCHANGED <<regFile, regOp, regJ, regCalls, regInitial>>
    /\ UNCHANGED <<regFlock, regSeen, qdPc>>
    /\ RegFrame

lock(p) ==
    /\ regPc[p] = "opened"
    /\ regLock = NoProc
    /\ regLock' = p
    /\ regPc' = [regPc EXCEPT ![p] = "locked"]
    /\ regLin' = Append(regLin, regOp[p])
    /\ UNCHANGED <<regFile, regOp, regJ, regCalls, regInitial>>
    /\ UNCHANGED <<regFlock, regSeen, qdPc>>
    /\ RegFrame

\* read_json(fd), then the modification of the object in memory; on a
\* discarded value j[task_id] and it.key() throw, and the call goes to its
\* catch block
read_modify(p) ==
    /\ regPc[p] = "locked"
    /\ IF is_discarded(regFile)
       THEN /\ regPc' = [regPc EXCEPT ![p] = "failed"]
            /\ UNCHANGED regJ
       ELSE /\ regJ' = [regJ EXCEPT ![p] = ApplyOp(read_json(regFile), regOp[p])]
            /\ regPc' = [regPc EXCEPT ![p] = "modified"]
    /\ UNCHANGED <<regFile, regLock, regOp, regCalls, regLin, regInitial>>
    /\ UNCHANGED <<regFlock, regSeen, qdPc>>
    /\ RegFrame

\* the catch block: close(fd), which drops the process's lock on the file,
\* and a runtime_error leaves the call
fail_close(p) ==
    /\ regPc[p] = "failed"
    /\ regLock' = IF regLock = p THEN NoProc ELSE regLock
    /\ regPc' = [regPc EXCEPT ![p] = "idle"]
    /\ regOp' = [regOp EXCEPT ![p] = NoOp]
    /\ regJ' = [regJ EXCEPT ![p] = EmptyObject]
    /\ UNCHANGED <<regFile, regCalls, regLin, regInitial>>
    /\ UNCHANGED <<regFlock, regSeen, qdPc>>
    /\ RegFrame

\* write_json, first half: ftruncate(fd, 0)
truncate(p) ==
    /\ regPc[p] = "modified"
    /\ regFile' = FileEmpty
    /\ regPc' = [regPc EXCEPT ![p] = "truncated"]
    /\ UNCHANGED <<regLock, regOp, regJ, regCalls, regLin, regInitial>>
    /\ UNCHANGED <<regFlock, regSeen, qdPc>>
    /\ RegFrame

\* write_json, second half: lseek(fd, 0) and write(fd, j.dump(4))
write_json(p) ==
    /\ regPc[p] = "truncated"
    /\ regFile' \in Overlay(regFile, regJ[p])
    /\ regPc' = [regPc EXCEPT ![p] = "written"]
    /\ UNCHANGED <<regLock, regOp, regJ, regCalls, regLin, regInitial>>
    /\ UNCHANGED <<regFlock, regSeen, qdPc>>
    /\ RegFrame

\* open, fcntl(F_SETLKW), read or ftruncate returns -1: the helper throws
\* and the call goes to its catch block with the file as it was
io_fail(p) ==
    /\ regPc[p] \in {"opened", "locked", "modified"}
    /\ regPc' = [regPc EXCEPT ![p] = "failed"]
    /\ UNCHANGED <<regFile, regLock, regOp, regJ, regCalls, regLin, regInitial>>
    /\ UNCHANGED <<regFlock, regSeen, qdPc>>
    /\ RegFrame

\* write_json, second half: write returns -1 (nothing is written) or fewer
\* bytes than asked (the start of the text is written); write_json throws
\* and the call goes to its catch block
write_fail(p, short) ==
    /\ regPc[p] = "truncated"
    /\ regFile' = IF short THEN FileInvalid ELSE regFile
    /\ regPc' = [regPc EXCEPT ![p] = "failed"]
    /\ UNCHANGED <<regLock, regOp, regJ, regCalls, regLin, regInitial>>
    /\ UNCHANGED <<regFlock, regSeen, qdPc>>
    /\ RegFrame

\* unlock(fd, fl) and close(fd); the call returns and its locals are gone
unlock(p) ==
    /\ regPc[p] = "written"
    /\ regLock' = IF regLock = p THEN NoProc ELSE regLock
    /\ regPc' = [regPc EXCEPT ![p] = "idle"]
    /\ regOp' = [regOp EXCEPT ![p] = NoOp]
    /\ regJ' = [regJ EXCEPT ![p] = EmptyObject]
    /\ UNCHANGED <<regFile, regCalls, regLin, regInitial>>
    /\ UNCHANGED <<regFlock, regSeen, qdPc>>
    /\ RegFrame

\* ClassicalChannel::publish(suffix): the channel's endpoint goes into
\* communications.json under the process's key
EndpointOf(p) == IF p = 1 THEN "e1" ELSE "e2"

publish(p, suffix) == write_on_file(p, CommEntry(EndpointOf(p)), suffix)

\* the endpoint an executor announced to the QPUs of its group
ExecutorEndpoint == "x1"

\* j[task_id]["executor_endpoint"] = endpoint: the field is added to the
\* entry of the key, which is created when the key is new
SetExecutor(j, key, endpoint) ==
    [k \in DOMAIN j \cup {key} |->
        IF k # key THEN j[k]
        ELSE IF key \in DOMAIN j
             THEN [f \in DOMAIN j[key] \cup {"executor_endpoint"} |->
                      IF f = "executor_endpoint" THEN endpoint ELSE j[key][f]]
             ELSE [executor_endpoint |-> endpoint]]

\* AerQCSimulator::write_executor_endpoint(endpoint, group_id), lines
\* 140-144: the file is opened. Both SLURM variables are set in a process
\* that gets here (std::string is built from getenv's result unchecked).
write_executor_endpoint(p, group_id) ==
    /\ regPc[p] = "idle"
    /\ JobEnv(p).set /\ PidEnv(p).set
    /\ regCalls < MaxCalls
    /\ regCalls' = regCalls + 1
    /\ regOp' = [regOp EXCEPT ![p] = [name |-> "executor", key |-> task_id(p, group_id),
                                      entry |-> CommEntry(ExecutorEndpoint),
                                      suffix |-> group_id]]
    /\ regPc' = [regPc EXCEPT ![p] = "x_opened"]
    /\ UNCHANGED <<regFile, regLock, regJ, regLin, regInitial, regFlock, regSeen, qdPc>>
    /\ RegFrame

\* line 145: flock(file, LOCK_EX) returns once no other open file
\* description holds a flock lock; fcntl locks are not flock locks
x_flock(p) ==
    /\ regPc[p] = "x_opened"
    /\ regFlock = NoProc
    /\ regFlock' = p
    /\ regPc' = [regPc EXCEPT ![p] = "x_locked"]
    /\ regLin' = Append(regLin, regOp[p])
    /\ UNCHANGED <<regFile, regLock, regOp, regJ, regCalls, regInitial, regSeen, qdPc>>
    /\ RegFrame

\* lines 147-159: the file is read through an ifstream (an empty file
\* leaves j null; text that is not JSON makes operator>> throw, and the
\* handler rethrows with the descriptor still open and locked), then the
\* field is set
x_read_modify(p) ==
    /\ regPc[p] = "x_locked"
    /\ IF is_discarded(regFile)
       THEN /\ regPc' = [regPc EXCEPT ![p] = "x_failed"]
            /\ UNCHANGED regJ
       ELSE /\ regJ' = [regJ EXCEPT ![p] =
                           SetExecutor(read_json(regFile), regOp[p].key, ExecutorEndpoint)]
            /\ regPc' = [regPc EXCEPT ![p] = "x_modified"]
    /\ UNCHANGED <<regFile, regLock, regOp, regCalls, regLin, regInitial,
                   regFlock, regSeen, qdPc>>
    /\ RegFrame

\* line 161: std::ofstream(path, std::ios::trunc)
x_truncate(p) ==
    /\ regPc[p] = "x_modified"
    /\ regFile' = FileEmpty
    /\ regPc' = [regPc EXCEPT ![p] = "x_truncated"]
    /\ UNCHANGED <<regLock, regOp, regJ, regCalls, regLin, regInitial,
                   regFlock, regSeen, qdPc>>
    /\ RegFrame

\* lines 162-163: file_out << j.dump(4), close
x_write(p) ==
    /\ regPc[p] = "x_truncated"
    /\ regFile' \in Overlay(regFile, regJ[p])
    /\ regPc' = [regPc EXCEPT ![p] = "x_written"]
    /\ UNCHANGED <<regLock, regOp, regJ, regCalls, regLin, regInitial,
                   regFlock, regSeen, qdPc>>
    /\ RegFrame

\* lines 165-166: flock(file, LOCK_UN), close(file)
x_unlock(p) ==
    /\ regPc[p] = "x_written"
    /\ regFlock' = IF regFlock = p THEN NoProc ELSE regFlock
    /\ regPc' = [regPc EXCEPT ![p] = "idle"]
    /\ regOp' = [regOp EXCEPT ![p] = NoOp]
    /\ regJ' = [regJ EXCEPT ![p] = EmptyObject]
    /\ UNCHANGED <<regFile, regLock, regCalls, regLin, regInitial, regSeen, qdPc>>
    /\ RegFrame

\* a process reads the file through an ifstream, with no lock:
\* QuantumTask::update_circuit and the AerExecutor constructor on
\* communications.json, qdrop on qpus.json
read_registry ==
    /\ regSeen' = Seen(regFile)
    /\ UNCHANGED <<regFile, regLock, regPc, regOp, regJ, regCalls, regLin,
                   regInitial, regFlock, qdPc>>
    /\ RegFrame

\* qdrop --all on qpus.json. read_qpus_json() parses the file through an
\* ifstream with no lock: text that is empty or not JSON makes `in >> j`
\* throw, and nothing catches it
read_qpus_json(f) ==
    IF f.empty \/ ~f.valid THEN [status |-> "throw", j |-> EmptyObject]
    ELSE [status |-> "ok", j |-> f.obj]

QdFrame == UNCHANGED <<regLock, regPc, regOp, regJ, regCalls, regLin,
                       regInitial, regFlock, regSeen>>

\* main: ids = get_qpus_ids(read_qpus_json()); with no id it returns
\* EXIT_FAILURE, otherwise it goes on to removeJobs(ids, true)
qdrop_main ==
    /\ qdPc = "idle"
    /\ LET r == read_qpus_json(regFile)
       IN  qdPc' = IF r.status = "throw" THEN "failed"
                   ELSE IF r.j = EmptyObject THEN "exit"
                   ELSE "cancel"
    /\ UNCHANGED regFile
    /\ QdFrame /\ RegFrame

\* removeJobs: after scancel, left_jobs = read_qpus_json(); the file is
\* reset only if left_jobs is not empty
removeJobs_read ==
    /\ qdPc = "cancel"
    /\ LET r == read_qpus_json(regFile)
       IN  qdPc' = IF r.status = "throw" THEN "failed"
                   ELSE IF r.j = EmptyObject THEN "exit"
                   ELSE "reset"
    /\ UNCHANGED regFile
    /\ QdFrame /\ RegFrame

\* removeJobs: std::ofstream ofs(QPUS_FILEPATH, std::ios::trunc), with no lock
removeJobs_trunc ==
    /\ qdPc = "reset"
    /\ regFile' = FileEmpty
    /\ qdPc' = "truncated"
    /\ QdFrame /\ RegFrame

\* removeJobs: ofs << "{}" puts two bytes at offset 0; over text another
\* process has written meanwhile they leave text that is not JSON
removeJobs_write ==
    /\ qdPc = "truncated"
    /\ regFile' = IF regFile.empty \/ (regFile.valid /\ regFile.obj = EmptyObject)
                  THEN FileOf(EmptyObject)
                  ELSE FileInvalid
    /\ qdPc' = "done"
    /\ QdFrame /\ RegFrame

QdropNext ==
    \/ qdrop_main
    \/ removeJobs_read
    \/ removeJobs_trunc
    \/ removeJobs_write

\* the writers of communications.json
CommNext ==
    \/ \E p \in Procs, x \in Suffixes : publish(p, x)
    \/ \E p \in Procs : lock(p)
    \/ \E p \in Procs : read_modify(p)
    \/ \E p \in Procs : fail_close(p)
    \/ \E p \in Procs : truncate(p)
    \/ \E p \in Procs : write_json(p)
    \/ \E p \in Procs : unlock(p)
    \/ \E p \in Procs, x \in Suffixes : write_executor_endpoint(p, x)
    \/ \E p \in Procs : x_flock(p)
    \/ \E p \in Procs : x_read_modify(p)
    \/ \E p \in Procs : x_truncate(p)
    \/ \E p \in Procs : x_write(p)
    \/ \E p \in Procs : x_unlock(p)

RegNext ==
    \/ \E p \in Procs, e \in Entries, x \in Suffixes : write_on_file(p, e, x)
    \/ \E p \in Procs, k \in RmKeys : remove_from_file(p, k)
    \/ \E p \in Procs : lock(p)
    \/ \E p \in Procs : read_modify(p)
    \/ \E p \in Procs : fail_close(p)
    \/ \E p \in Procs : truncate(p)
    \/ \E p \in Procs : write_json(p)
    \/ \E p \in Procs : unlock(p)

(***************************************************************************)
(*                          QUANTUM TASK                                   *)
(* QuantumTask::update_circuit and update_params_ as operators on the      *)
(* retained task. An outcome is the task as the call leaves it and how the *)
(* call ended: "ok" (returned), "throw" (an exception left the call) or    *)
(* "crash" (an out-of-bounds read brought the process down).               *)
(***************************************************************************)
\* communications.json as update_circuit reads it: logical id -> entry
Communications ==
    [id \in {"q1", "q2"} |->
        IF id = "q1"
        THEN [communications_endpoint |-> "tcp://q1:5"]
        ELSE [communications_endpoint |-> "tcp://q2:6",
              executor_endpoint |-> "tcp://ex:9"]]

\* every endpoint string the file holds
FileEndpoints ==
    {Communications[id].communications_endpoint : id \in DOMAIN Communications}
    \cup {Communications[id].executor_endpoint :
            id \in {x \in DOMAIN Communications :
                      "executor_endpoint" \in DOMAIN Communications[x]}}

\* the instruction names constants::INSTRUCTIONS_MAP knows
INSTRUCTIONS_MAP == {"h", "rx", "r", "u", "measure_and_send", "recv"}

\* what an out-of-bounds read of the params vector may yield
Garbage == "garbage"

Instr(name, params, has_qpus, qpus) ==
    [name |-> name, params |-> params, has_qpus |-> has_qpus, qpus |-> qpus]

\* a default-constructed QuantumTask
EmptyTask ==
    [circuit |-> <<>>, config |-> "null", sending_to |-> <<>>,
     is_dynamic |-> FALSE, has_cc |-> FALSE, id |-> ""]

\* the switch of update_params_: values a gate takes from params
Arity(name) ==
    CASE name \in {"rx", "ry", "rz"} -> 1
      [] name = "r" -> 2
      [] name \in {"u", "cu"} -> 3
      [] OTHER -> 0

\* the value of counter when the loop of update_params_ reaches instruction i
Counter_mut_zero(circuit, i) == 0

RECURSIVE Counter(_, _)
Counter(circuit, i) ==
    IF i <= 1 THEN 0
    ELSE Counter(circuit, i - 1) + Arity(circuit[i - 1].name)

\* the first instruction whose name INSTRUCTIONS_MAP.at() rejects, or Len + 1
FirstUnknown(circuit) ==
    LET bad == {i \in 1..Len(circuit) : circuit[i].name \notin INSTRUCTIONS_MAP}
    IN IF bad = {} THEN Len(circuit) + 1
       ELSE CHOOSE i \in bad : \A j \in bad : i <= j

\* params[counter + k], k counted from 0: past the end the read is undefined
ParamAt(params, idx) == IF idx + 1 <= Len(params) THEN params[idx + 1] ELSE Garbage

\* instruction.at("params")[k] = params[counter + k] for k below the arity
Rebind(instr, params, counter) ==
    LET a == Arity(instr.name)
        n == IF Len(instr.params) > a THEN Len(instr.params) ELSE a
    IN [instr EXCEPT !.params =
           [k \in 1..n |-> IF k <= a THEN ParamAt(params, counter + k - 1)
                           ELSE instr.params[k]]]

\* QuantumTask::update_params_
update_params_mut_nocheck(task, params) == {[task |-> task, status |-> "ok"]}

update_params_(task, params) ==
    IF task.circuit = <<>>
    THEN {[task |-> task, status |-> "throw"]}
    ELSE LET stop == FirstUnknown(task.circuit)
             circuit == [i \in 1..Len(task.circuit) |->
                            IF i < stop
                            THEN Rebind(task.circuit[i], params, Counter(task.circuit, i))
                            ELSE task.circuit[i]]
             needed == Counter(task.circuit, stop)
             left == [task EXCEPT !.circuit = circuit]
         IN IF needed > Len(params)
            THEN {[task |-> left, status |-> IF stop <= Len(task.circuit) THEN "throw" ELSE "ok"],
                  [task |-> left, status |-> "crash"]}
            ELSE {[task |-> left, status |-> IF stop <= Len(task.circuit) THEN "throw" ELSE "ok"]}

\* the peer's entry is looked up with communications.at(): it throws when
\* the logical id is not a key of the file
Known(id) == id \in DOMAIN Communications

\* quantum_task.cpp line 86: the executor endpoint when the entry has one
InstructionEndpoint(id) ==
    IF "executor_endpoint" \in DOMAIN Communications[id]
    THEN Communications[id].executor_endpoint
    ELSE Communications[id].communications_endpoint

\* quantum_task.cpp line 94
SendingEndpoint(id) == Communications[id].communications_endpoint

\* the first instruction whose qpus[0] is not in the file, or Len + 1
FirstMissingInstr(circuit) ==
    LET bad == {i \in 1..Len(circuit) :
                  circuit[i].has_qpus /\ ~Known(circuit[i].qpus[1])}
    IN IF bad = {} THEN Len(circuit) + 1
       ELSE CHOOSE i \in bad : \A j \in bad : i <= j

\* the first entry of sending_to that is not in the file, or Len + 1
FirstMissingTarget(sending_to) ==
    LET bad == {i \in 1..Len(sending_to) : ~Known(sending_to[i])}
    IN IF bad = {} THEN Len(sending_to) + 1
       ELSE CHOOSE i \in bad : \A j \in bad : i <= j

\* the has_cc block of update_circuit: the instructions are rewritten in
\* order, then the entries of sending_to; a failed lookup leaves the call
\* with what was rewritten before it
RewriteCC(task) ==
    LET stopI == FirstMissingInstr(task.circuit)
        circuit == [i \in 1..Len(task.circuit) |->
                       IF i < stopI /\ task.circuit[i].has_qpus
                       THEN [task.circuit[i] EXCEPT
                                !.qpus = <<InstructionEndpoint(task.circuit[i].qpus[1])>>]
                       ELSE task.circuit[i]]
        stopT == IF stopI <= Len(task.circuit) THEN 1
                 ELSE FirstMissingTarget(task.sending_to)
        sending_to == [i \in 1..Len(task.sending_to) |->
                          IF i < stopT THEN SendingEndpoint(task.sending_to[i])
                          ELSE task.sending_to[i]]
    IN [task |-> [task EXCEPT !.circuit = circuit, !.sending_to = sending_to],
        status |-> IF stopI <= Len(task.circuit) \/ stopT <= Len(task.sending_to)
                   THEN "throw" ELSE "ok"]

\* QuantumTask::update_circuit: "junk" does not parse; "task" holds
\* instructions and config; "params" holds params and not both of those;
\* "other" is a JSON document (or the empty text) holding neither
update_circuit(task, body) ==
    CASE body.kind = "junk" -> {[task |-> task, status |-> "throw"]}
      [] body.kind = "task" ->
            LET assigned == [circuit |-> body.instructions, config |-> body.config,
                             sending_to |-> body.sending_to,
                             is_dynamic |-> body.is_dynamic,
                             has_cc |-> body.has_cc, id |-> body.id]
            IN IF body.has_cc THEN {RewriteCC(assigned)}
               ELSE {[task |-> assigned, status |-> "ok"]}
      [] body.kind = "params" -> update_params_(task, body.params)
      [] OTHER -> {[task |-> task, status |-> "ok"]}

(***************************************************************************)
(*                          QPU SERVER LOOP                                *)
(* The listen thread (recv_data_), the compute thread (compute_result_),   *)
(* the message queue with its mutex and condition variable, and the        *)
(* server socket with its queue of pending routing ids.                    *)
(***************************************************************************)
\* routing ids: one per connected client
Clients == {1, 2}

NoRid == 0

NoThread == "none"

Body(kind, instructions, sending_to, has_cc, id, params) ==
    [kind |-> kind, instructions |-> instructions, config |-> "cfg",
     sending_to |-> sending_to, is_dynamic |-> has_cc, has_cc |-> has_cc,
     id |-> id, params |-> params]

\* a task without classical communication, with one rx gate
TaskPlain ==
    Body("task", <<Instr("rx", <<"a">>, FALSE, <<>>)>>, <<>>, FALSE, "t1", <<>>)

\* a has_cc task whose peers are all in communications.json
TaskCC ==
    Body("task", <<Instr("measure_and_send", <<>>, TRUE, <<"q1">>),
                   Instr("recv", <<>>, TRUE, <<"q2">>)>>,
         <<"q2">>, TRUE, "t2", <<>>)

\* a has_cc task naming a peer that communications.json does not hold
TaskCCMissing ==
    Body("task", <<Instr("measure_and_send", <<>>, TRUE, <<"q1">>),
                   Instr("recv", <<>>, TRUE, <<"q9">>)>>,
         <<"q1">>, TRUE, "t3", <<>>)

\* parameter updates: one value, and none
ParamsOne == Body("params", <<>>, <<>>, FALSE, "", <<"b">>)

ParamsNone == Body("params", <<>>, <<>>, FALSE, "", <<>>)

\* text that is not JSON
Junk == Body("junk", <<>>, <<>>, FALSE, "", <<>>)

\* the literal text CLOSE
Close == Body("CLOSE", <<>>, <<>>, FALSE, "", <<>>)

ClientBodies == {TaskPlain, TaskCC, TaskCCMissing, ParamsOne, ParamsNone, Junk, Close}

NoMsg == [n |-> 0, body |-> Close]

QpuInit ==
    /\ message_queue_ = <<>>
    /\ queue_mutex_ = NoThread
    /\ rid_queue_ = <<>>
    /\ lpc = "recv"
    /\ lmsg = NoMsg
    /\ cpc = "start"
    /\ cmsg = NoMsg
    /\ quantum_task_ = EmptyTask
    /\ received = <<>>
    /\ pushed = <<>>
    /\ replies = <<>>

\* message_queue_.front() and message_queue_.pop() of compute_result_
front_mut_back(q) == Last(q)

front(q) == Head(q)

pop(q) == Tail(q)

\* Server::Impl::recv on a received message: the routing id is recorded
\* whatever the message says. The push here and the front/pop of send are
\* each taken as one step of its thread.
rid_push(rids, rid, body) == Append(rids, rid)

\* Server::Impl::send: the reply takes rid_queue_.front(); undefined on an
\* empty queue, where no routing id at all is set
rid_front(rids) == IF rids = <<>> THEN NoRid ELSE Head(rids)

rid_pop(rids) == IF rids = <<>> THEN rids ELSE Tail(rids)

\* the process is brought down: both worker threads are gone
Terminate == cpc' = "terminated" /\ lpc' = "terminated"

\* rid_queue_ has no lock of its own and queue_mutex_ is held at neither
\* access: the listen thread is about to push while the compute thread is
\* about to take front and pop
RidRace == lpc = "rid" /\ cpc \in {"send", "catch"}

\* the two accesses overlap: a data race on the std::queue. The accesses
\* either come out as if one followed the other (recv_rid_push and the send
\* steps below) or corrupt the queue, which brings the process down
rid_queue_race ==
    /\ RidRace
    /\ Terminate
    /\ UNCHANGED <<message_queue_, queue_mutex_, rid_queue_, lmsg, cmsg,
                   quantum_task_, received, pushed, replies>>
    /\ QpuFrame

\* listen, qpu.cpp line 100, Server::Impl::recv lines 55-57: socket_.recv
\* returns a client's message
recv_data(c, body) ==
    /\ lpc = "recv"
    /\ Len(received) < MaxMsgs
    /\ received' = Append(received, [rid |-> c, body |-> body, error |-> FALSE])
    /\ lmsg' = [n |-> Len(received) + 1, body |-> body]
    /\ lpc' = "rid"
    /\ UNCHANGED <<message_queue_, queue_mutex_, rid_queue_, cpc, cmsg,
                   quantum_task_, pushed, replies>>
    /\ QpuFrame

\* listen, Server::Impl::recv line 59: rid_queue_.push(message.routing_id())
recv_rid_push ==
    /\ lpc = "rid"
    /\ rid_queue_' = rid_push(rid_queue_, received[lmsg.n].rid, lmsg.body)
    /\ lpc' = "lock"
    /\ UNCHANGED <<message_queue_, queue_mutex_, lmsg, cpc, cmsg, quantum_task_,
                   received, pushed, replies>>
    /\ QpuFrame

\* listen, qpu.cpp line 100: the socket fails, recv_data returns "CLOSE" and
\* records no routing id
recv_data_error ==
    /\ lpc = "recv"
    /\ Len(received) < MaxMsgs
    /\ received' = Append(received, [rid |-> NoRid, body |-> Close, error |-> TRUE])
    /\ lmsg' = [n |-> Len(received) + 1, body |-> Close]
    /\ lpc' = "lock"
    /\ UNCHANGED <<message_queue_, queue_mutex_, rid_queue_, cpc, cmsg,
                   quantum_task_, pushed, replies>>
    /\ QpuFrame

\* listen, line 102: lock_guard takes queue_mutex_
listen_lock ==
    /\ lpc = "lock"
    /\ queue_mutex_ = NoThread
    /\ queue_mutex_' = "listen"
    /\ lpc' = "locked"
    /\ UNCHANGED <<message_queue_, rid_queue_, lmsg, cpc, cmsg, quantum_task_,
                   received, pushed, replies>>
    /\ QpuFrame

\* listen, line 103: message.compare("CLOSE") == 0
is_close_mut_never(body) == FALSE

is_close(body) == body.kind = "CLOSE"

\* listen, lines 103-109: CLOSE re-accepts and continues, anything else is
\* pushed; the lock_guard releases the mutex either way
listen_push ==
    /\ lpc = "locked"
    /\ queue_mutex_' = NoThread
    /\ IF is_close(lmsg.body)
       THEN /\ lpc' = "recv"
            /\ UNCHANGED <<message_queue_, pushed>>
       ELSE /\ message_queue_' = Append(message_queue_, lmsg)
            /\ pushed' = Append(pushed, lmsg.n)
            /\ lpc' = "notify"
    /\ UNCHANGED <<rid_queue_, lmsg, cpc, cmsg, quantum_task_, received, replies>>
    /\ QpuFrame

\* listen, line 110: notify_one wakes the compute thread if it waits
listen_notify ==
    /\ lpc = "notify"
    /\ lpc' = "recv"
    /\ cpc' = IF cpc = "blocked" THEN "woken" ELSE cpc
    /\ UNCHANGED <<message_queue_, queue_mutex_, rid_queue_, lmsg, cmsg,
                   quantum_task_, received, pushed, replies>>
    /\ QpuFrame

\* compute, line 61: unique_lock takes queue_mutex_
compute_lock ==
    /\ cpc = "start"
    /\ queue_mutex_ = NoThread
    /\ queue_mutex_' = "compute"
    /\ cpc' = "wait"
    /\ UNCHANGED <<message_queue_, rid_queue_, lpc, lmsg, cmsg, quantum_task_,
                   received, pushed, replies>>
    /\ QpuFrame

\* compute, line 62: wait(lock, pred) returns when the queue is non-empty,
\* otherwise it releases the mutex and blocks
compute_wait ==
    /\ cpc = "wait"
    /\ IF message_queue_ # <<>>
       THEN cpc' = "loop" /\ UNCHANGED queue_mutex_
       ELSE cpc' = "blocked" /\ queue_mutex_' = NoThread
    /\ UNCHANGED <<message_queue_, rid_queue_, lpc, lmsg, cmsg, quantum_task_,
                   received, pushed, replies>>
    /\ QpuFrame

\* compute, line 62: a woken wait takes the mutex again and tests the
\* predicate again
compute_wake ==
    /\ cpc = "woken"
    /\ queue_mutex_ = NoThread
    /\ queue_mutex_' = "compute"
    /\ cpc' = "wait"
    /\ UNCHANGED <<message_queue_, rid_queue_, lpc, lmsg, cmsg, quantum_task_,
                   received, pushed, replies>>
    /\ QpuFrame

\* compute, line 62: a blocked wait may also wake with no notification
compute_spurious ==
    /\ cpc = "blocked"
    /\ cpc' = "woken"
    /\ UNCHANGED <<message_queue_, queue_mutex_, rid_queue_, lpc, lmsg, cmsg,
                   quantum_task_, received, pushed, replies>>
    /\ QpuFrame

\* unique_lock::unlock of line 69: queue_mutex_ has no holder
unique_unlock_mut_keep(thread) == thread

unique_unlock(thread) == NoThread

\* compute, lines 64-69: the inner loop ends on an empty queue (the
\* unique_lock goes out of scope), otherwise the front message is popped and
\* the mutex released
compute_pop ==
    /\ cpc = "loop"
    /\ IF message_queue_ = <<>>
       THEN /\ cpc' = "start"
            /\ queue_mutex_' = NoThread
            /\ UNCHANGED <<message_queue_, cmsg>>
       ELSE /\ cmsg' = front(message_queue_)
            /\ message_queue_' = pop(message_queue_)
            /\ queue_mutex_' = unique_unlock("compute")
            /\ cpc' = "update"
    /\ UNCHANGED <<rid_queue_, lpc, lmsg, quantum_task_, received, pushed, replies>>
    /\ QpuFrame

\* compute, line 71: quantum_task_.update_circuit(message)
compute_update ==
    /\ cpc = "update"
    /\ \E out \in update_circuit(quantum_task_, cmsg.body) :
          /\ quantum_task_' = out.task
          /\ CASE out.status = "ok" -> cpc' = "execute" /\ UNCHANGED lpc
               [] out.status = "throw" -> cpc' = "catch" /\ UNCHANGED lpc
               [] OTHER -> Terminate
    /\ UNCHANGED <<message_queue_, queue_mutex_, rid_queue_, lmsg, cmsg,
                   received, pushed, replies>>
    /\ QpuFrame

\* compute, line 72: backend->execute(quantum_task_) returns a result or
\* throws
execute(ok) ==
    /\ cpc = "execute"
    /\ cpc' = IF ok THEN "send" ELSE "catch"
    /\ UNCHANGED <<message_queue_, queue_mutex_, rid_queue_, lpc, lmsg, cmsg,
                   quantum_task_, received, pushed, replies>>
    /\ QpuFrame

\* compute, line 73: server->send_result(result.dump()); a failed send
\* throws ServerException, which the first handler logs and swallows
send_result(delivered) ==
    /\ cpc = "send"
    /\ replies' = Append(replies, [n |-> cmsg.n, rid |-> rid_front(rid_queue_),
                                   doc |-> "result", delivered |-> delivered])
    /\ rid_queue_' = rid_pop(rid_queue_)
    /\ cpc' = "relock"
    /\ UNCHANGED <<message_queue_, queue_mutex_, lpc, lmsg, cmsg, quantum_task_,
                   received, pushed>>
    /\ QpuFrame

\* compute, line 81: the second handler sends the ERROR document; a
\* ServerException thrown here is inside a handler, so no handler of this
\* try catches it: it leaves compute_result_ and the process is terminated
send_error(delivered) ==
    /\ cpc = "catch"
    /\ replies' = Append(replies, [n |-> cmsg.n, rid |-> rid_front(rid_queue_),
                                   doc |-> "ERROR", delivered |-> delivered])
    /\ rid_queue_' = rid_pop(rid_queue_)
    /\ IF delivered THEN cpc' = "relock" /\ UNCHANGED lpc ELSE Terminate
    /\ UNCHANGED <<message_queue_, queue_mutex_, lmsg, cmsg, quantum_task_,
                   received, pushed>>
    /\ QpuFrame

\* unique_lock::lock of line 83: the calling thread becomes the holder of
\* queue_mutex_
unique_lock_mut_skip(thread) == NoThread

unique_lock(thread) == thread

\* compute, line 83: lock.lock(), reached after the try block and after
\* either handler
compute_relock ==
    /\ cpc = "relock"
    /\ queue_mutex_ = NoThread
    /\ queue_mutex_' = unique_lock("compute")
    /\ cpc' = "loop"
    /\ UNCHANGED <<message_queue_, rid_queue_, lpc, lmsg, cmsg, quantum_task_,
                   received, pushed, replies>>
    /\ QpuFrame

QpuNext ==
    \/ \E c \in Clients, b \in ClientBodies : recv_data(c, b)
    \/ recv_data_error
    \/ recv_rid_push
    \/ rid_queue_race
    \/ listen_lock
    \/ listen_push
    \/ listen_notify
    \/ compute_lock
    \/ compute_wait
    \/ compute_wake
    \/ compute_spurious
    \/ compute_pop
    \/ compute_update
    \/ \E ok \in BOOLEAN : execute(ok)
    \/ \E d \in BOOLEAN : send_result(d)
    \/ \E d \in BOOLEAN : send_error(d)
    \/ compute_relock

(***************************************************************************)
(*                       ONE QUANTUM TASK OBJECT                           *)
(* A QuantumTask that is given messages one after another, as the compute  *)
(* thread does, and the executor that receives its serialised form from a  *)
(* QC backend.                                                             *)
(***************************************************************************)
\* a task without classical communication holding every kind of gate
TaskGates ==
    Body("task", <<Instr("h", <<>>, FALSE, <<>>),
                   Instr("rx", <<"a">>, FALSE, <<>>),
                   Instr("r", <<"a", "a">>, FALSE, <<>>),
                   Instr("u", <<"a", "a", "a">>, FALSE, <<>>)>>,
         <<>>, FALSE, "t4", <<>>)

\* a has_cc task with an instruction that names two peers
TaskCCTwo ==
    Body("task", <<Instr("measure_and_send", <<>>, TRUE, <<"q1", "q2">>)>>,
         <<"q1", "q2">>, TRUE, "t5", <<>>)

\* a has_cc task with a parametric gate
TaskCCParam ==
    Body("task", <<Instr("rx", <<"a">>, FALSE, <<>>),
                   Instr("measure_and_send", <<>>, TRUE, <<"q2">>)>>,
         <<"q1">>, TRUE, "t6", <<>>)

\* parameter updates of two and of six values
ParamsTwo == Body("params", <<>>, <<>>, FALSE, "", <<"b", "c">>)

ParamsSix ==
    Body("params", <<>>, <<>>, FALSE, "", <<"p1", "p2", "p3", "p4", "p5", "p6">>)

\* the empty text: update_circuit takes it for a null JSON value
EmptyText == Body("other", <<>>, <<>>, FALSE, "", <<>>)

TaskBodies ==
    {TaskPlain, TaskGates, TaskCC, TaskCCTwo, TaskCCMissing, TaskCCParam,
     ParamsNone, ParamsOne, ParamsTwo, ParamsSix, Junk, EmptyText}

\* to_string(const QuantumTask&): the text holds id, config, instructions,
\* sending_to and is_dynamic, and no has_cc key (which parses as false); a
\* task with no instructions gives the empty text
to_string_mut_has_cc(task) ==
    IF task.circuit = <<>> THEN EmptyText
    ELSE [kind |-> "task", instructions |-> task.circuit, config |-> task.config,
          sending_to |-> task.sending_to, is_dynamic |-> task.is_dynamic,
          has_cc |-> task.has_cc, id |-> task.id, params |-> <<>>]

to_string(task) ==
    IF task.circuit = <<>> THEN EmptyText
    ELSE [kind |-> "task", instructions |-> task.circuit, config |-> task.config,
          sending_to |-> task.sending_to, is_dynamic |-> task.is_dynamic,
          has_cc |-> FALSE, id |-> task.id, params |-> <<>>]

TaskInit ==
    /\ qt = EmptyTask
    /\ qtPrev = EmptyTask
    /\ qtBody = EmptyText
    /\ qtStatus = "new"
    /\ qtCalls = 0
    /\ exFrom = EmptyTask
    /\ exTask = EmptyTask
    /\ exStatus = "none"

\* quantum_task_.update_circuit(message) on the retained object
task_update(body) ==
    /\ qtCalls < MaxUpdates
    /\ qtStatus # "crash"
    /\ \E out \in update_circuit(qt, body) :
          /\ qt' = out.task
          /\ qtStatus' = out.status
    /\ qtPrev' = qt
    /\ qtBody' = body
    /\ qtCalls' = qtCalls + 1
    /\ UNCHANGED <<exFrom, exTask, exStatus>>
    /\ TaskFrame

\* AerQCSimulator::execute serialises the task the QPU accepted and sends
\* it; AerExecutor::run builds a QuantumTask from every non-empty message
executor_build ==
    /\ qtStatus = "ok"
    /\ exFrom' = qt
    /\ IF to_string(qt) = EmptyText
       THEN exTask' = EmptyTask /\ exStatus' = "skipped"
       ELSE \E out \in update_circuit(EmptyTask, to_string(qt)) :
               /\ exTask' = out.task
               /\ exStatus' = out.status
    /\ UNCHANGED <<qt, qtPrev, qtBody, qtStatus, qtCalls>>
    /\ TaskFrame

TaskNext ==
    \/ \E b \in TaskBodies : task_update(b)
    \/ executor_build

(***************************************************************************)
(*                      EXECUTOR AND QC SIMULATORS                         *)
(* One AerExecutor process and the QPU processes whose AerQCSimulator has  *)
(* published its endpoint in communications.json. A frame is the identity  *)
(* the sending dealer stamps and the data.                                 *)
(***************************************************************************)
\* the executor's channel: classical_channel{"executor"}
ExChannel == Channel("tcp://ex:9", ExecutorId)

\* the QPU processes: the key each publishes under and the endpoint its
\* channel is bound to
ExQpus == {1, 2, 3}

ExKey(q) ==
    IF q = 1 THEN <<"1", "_", "7">>
    ELSE IF q = 2 THEN <<"1", "_", "8", "_", "g">>
    ELSE <<"2", "_", "9", "_", "a", "g">>

ExBound(q) ==
    IF q = 1 THEN "tcp://q1:5" ELSE IF q = 2 THEN "tcp://q2:6" ELSE "tcp://q3:7"

\* the channel of an AerQCSimulator: comm::ClassicalChannel classical_channel
QcChannel(q) == Channel(ExBound(q), "")

\* ClassicalChannel::endpoint, which publish writes
QcEndpoint(q) == QcChannel(q).zmq_endpoint

QcEndpoints == {QcEndpoint(q) : q \in ExQpus}

QpuAt(e) == CHOOSE q \in ExQpus : QcEndpoint(q) = e

\* communications.json after the QPUs of qs have published
Published(qs) ==
    [k \in {ExKey(q) : q \in qs} |->
        CommEntry(QcEndpoint(CHOOSE q \in qs : ExKey(q) = k))]

\* how an executor is started: AerExecutor() with SLURM_JOB_ID, or
\* AerExecutor(group_id)
ByJob(job_id) == [group |-> FALSE, id |-> job_id]

ByGroup(group_id) == [group |-> TRUE, id |-> group_id]

ExModes == {ByJob(<<"1">>), ByGroup(<<"g">>), ByGroup(<<"a", "g">>)}

NoMode == [group |-> FALSE, id |-> <<>>]

\* std::string::npos, and the positions of a size_t subtraction that went
\* below zero: key.size() - group_id.size() wraps to npos exactly when the
\* key is one character shorter, and to a value no position equals when it
\* is shorter by more
npos == 0 - 1

\* key.rfind(s): the last position (from 0) at which s occurs in key
rfind(key, s) ==
    LET at == {i \in 0..(Len(key) - Len(s)) : SubSeq(key, i + 1, i + Len(s)) = s}
    IN IF at = {} THEN npos ELSE CHOOSE i \in at : \A j \in at : j <= i

\* the test each constructor makes on a key of the file
selects_mut_all(key, mode) == TRUE

selects(key, mode) ==
    IF mode.group
    THEN rfind(key, mode.id) = Len(key) - Len(mode.id)
    ELSE StartsWith(key, mode.id)

\* the order of std::string, on the characters keys are made of
CharCode(c) ==
    CASE c = "1" -> 49 [] c = "2" -> 50 [] c = "7" -> 55 [] c = "8" -> 56
      [] c = "9" -> 57 [] c = "_" -> 95 [] c = "a" -> 97 [] c = "g" -> 103
      [] OTHER -> 127

RECURSIVE KeyLess(_, _)
KeyLess(a, b) ==
    IF b = <<>> THEN FALSE
    ELSE IF a = <<>> THEN TRUE
    ELSE IF CharCode(Head(a)) # CharCode(Head(b))
         THEN CharCode(Head(a)) < CharCode(Head(b))
         ELSE KeyLess(Tail(a), Tail(b))

\* j.items(): the keys of the object in the order of its std::map
RECURSIVE items(_)
items(keys) ==
    IF keys = {} THEN <<>>
    ELSE LET first == CHOOSE k \in keys : \A o \in keys \ {k} : KeyLess(k, o)
         IN <<first>> \o items(keys \ {first})

\* the loop of the constructors: qpu_ids gets the endpoint of each selected
\* entry, in the order of the file
RECURSIVE select_ids(_, _, _)
select_ids(keys, j, mode) ==
    IF keys = <<>> THEN <<>>
    ELSE IF selects(Head(keys), mode)
         THEN <<j[Head(keys)].communications_endpoint>> \o select_ids(Tail(keys), j, mode)
         ELSE select_ids(Tail(keys), j, mode)

Frame(id, data) == [id |-> id, data |-> data]

\* the identities frames may carry
Identities == QcEndpoints \cup {ExecutorId, ""}

\* the circuits a QC simulator sends: to_string of a task without
\* instructions is empty
Circuits == {"", "c"}

\* AerSimulatorAdapter::simulate on the round's tasks, dumped
simulate == {"r1", "r2"}

\* a dealer map without dealers
NoSockets == [k \in {} |-> NoSocket]

\* Impl::connect(endpoint, id) of a channel, on its dealer map alone
connect_on(sockets, channel, endpoint, id) ==
    LET key == IF id = "" THEN endpoint ELSE id
        fresh == [k \in {key} |-> 0]
    IN find_or_create([sockets |-> sockets, calls |-> fresh, created |-> fresh,
                       first |-> [k \in {key} |-> NoSocket]],
                      key, endpoint, channel.zmq_id).sockets

\* connect to every id of the list, in order
RECURSIVE connect_ids(_, _)
connect_ids(sockets, ids) ==
    IF ids = <<>> THEN sockets
    ELSE connect_ids(connect_on(sockets, ExChannel, Head(ids), ""), Tail(ids))

\* send_info(data, target) for each target of the list, in order, on the
\* frames in flight to the QPUs
RECURSIVE send_each(_, _, _, _)
send_each(wires, sockets, targets, data) ==
    IF targets = <<>> THEN wires
    ELSE LET t == Head(targets)
             r == send_frame(sockets, wires[t], ExecutorId,
                             Frame(sockets[t].identity, data), t)
         IN send_each([wires EXCEPT ![t] = r.wire], sockets, Tail(targets), data)

\* run's for loop is over: every id of qpu_ids was visited
round_complete_mut_first(i, ids) == i > 1 \/ i > Len(ids)

round_complete(i, ids) == i > Len(ids)

\* qpus_working.clear()
clear_mut_keep(working) == working

clear(working) == <<>>

ExecInit ==
    /\ xPc = "new"
    /\ xMode = NoMode
    /\ xSeen = NotRead
    /\ qpu_ids = <<>>
    /\ xSockets = NoSockets
    /\ xQueue = [o \in Identities |-> <<>>]
    /\ xI = 1
    /\ xGot = <<>>
    /\ qpus_working = <<>>
    /\ quantum_tasks = <<>>
    /\ xRound = 0
    /\ xLog = <<>>
    /\ toEx = [e \in QcEndpoints |-> <<>>]
    /\ toQpu = [e \in QcEndpoints |-> <<>>]
    /\ qcPc = [e \in QcEndpoints |-> "off"]
    /\ qcSockets = [e \in QcEndpoints |-> NoSockets]
    /\ qcSent = [e \in QcEndpoints |-> <<>>]
    /\ qcGot = [e \in QcEndpoints |-> <<>>]

\* AerExecutor::AerExecutor() and AerExecutor(group_id): the file is read
\* (text that is not JSON makes operator>> throw), and each selected entry
\* is connected to and sent the executor's endpoint
executor_start(mode) ==
    /\ xPc = "new"
    /\ xMode' = mode
    /\ xSeen' = Seen(regFile)
    /\ IF is_discarded(regFile)
       THEN /\ xPc' = "failed"
            /\ UNCHANGED <<qpu_ids, xSockets, toQpu, qcPc>>
       ELSE LET j == read_json(regFile)
                ids == select_ids(items(DOMAIN j), j, mode)
                sockets == connect_ids(xSockets, ids)
            IN /\ xPc' = "loop"
               /\ qpu_ids' = ids
               /\ xSockets' = sockets
               /\ toQpu' = send_each(toQpu, sockets, ids, ExChannel.zmq_endpoint)
               /\ qcPc' = [e \in QcEndpoints |->
                              IF \E k \in DOMAIN j : j[k].communications_endpoint = e
                              THEN "waiting" ELSE "off"]
    /\ UNCHANGED <<xQueue, xI, xGot, qpus_working, quantum_tasks, xRound, xLog,
                   toEx, qcSockets, qcSent, qcGot, regFile>>
    /\ ExecFrame

\* run, line 103: !message.empty()
is_working_mut_always(message) == TRUE

is_working(message) == message # ""

\* run, lines 100-106: what the loop does with the message recv_info
\* returned for qpu_id
Collected(qpu_id, message) ==
    /\ xGot' = Append(xGot, <<qpu_id, message>>)
    /\ qpus_working' = IF is_working(message) THEN Append(qpus_working, qpu_id)
                       ELSE qpus_working
    /\ quantum_tasks' = IF is_working(message) THEN Append(quantum_tasks, message)
                        ELSE quantum_tasks
    /\ xI' = xI + 1

\* run, line 100: recv_info(qpu_id) is called; a buffered frame of the
\* origin is popped and returned, otherwise the call enters its loop
run_recv_enter ==
    /\ xPc = "loop"
    /\ xRound < MaxRounds
    /\ ~round_complete(xI, qpu_ids)
    /\ LET origin == qpu_ids[xI] IN
        IF xQueue[origin] # <<>>
        THEN /\ Collected(origin, Head(xQueue[origin]))
             /\ xQueue' = [xQueue EXCEPT ![origin] = Tail(@)]
             /\ UNCHANGED xPc
        ELSE /\ xPc' = "recv"
             /\ UNCHANGED <<xQueue, xGot, qpus_working, quantum_tasks, xI>>
    /\ UNCHANGED <<xMode, xSeen, qpu_ids, xSockets, xRound, xLog, toEx, toQpu,
                   qcPc, qcSockets, qcSent, qcGot, regFile>>
    /\ ExecFrame

\* one turn of recv's loop inside run: the router hands over the next frame
\* of some QPU; a frame of the origin ends the call, any other is buffered
run_recv_frame(e) ==
    /\ xPc = "recv"
    /\ toEx[e] # <<>>
    /\ toEx' = [toEx EXCEPT ![e] = Tail(@)]
    /\ LET frame == Head(toEx[e])
           origin == qpu_ids[xI]
       IN IF frame.id = origin
          THEN /\ Collected(origin, frame.data)
               /\ xPc' = "loop"
               /\ UNCHANGED xQueue
          ELSE /\ xQueue' = [xQueue EXCEPT ![frame.id] = Append(@, frame.data)]
               /\ UNCHANGED <<xPc, xGot, qpus_working, quantum_tasks, xI>>
    /\ UNCHANGED <<xMode, xSeen, qpu_ids, xSockets, xRound, xLog, toQpu,
                   qcPc, qcSockets, qcSent, qcGot, regFile>>
    /\ ExecFrame

\* run, lines 109-121: the tasks of the round are simulated together, the
\* dumped result goes to each of qpus_working, and both lists are cleared
run_simulate(result_str) ==
    /\ xPc = "loop"
    /\ xRound < MaxRounds
    /\ round_complete(xI, qpu_ids)
    /\ toQpu' = send_each(toQpu, xSockets, qpus_working, result_str)
    /\ xLog' = Append(xLog, [got |-> xGot, tasks |-> quantum_tasks,
                             result |-> result_str, sent |-> qpus_working])
    /\ qpus_working' = clear(qpus_working)
    /\ quantum_tasks' = <<>>
    /\ xGot' = <<>>
    /\ xI' = 1
    /\ xRound' = xRound + 1
    /\ UNCHANGED <<xPc, xMode, xSeen, qpu_ids, xSockets, xQueue, toEx,
                   qcPc, qcSockets, qcSent, qcGot, regFile>>
    /\ ExecFrame

\* AerQCSimulator::AerQCSimulator, first statement: classical_channel.publish()
\* writes the QPU's entry into communications.json; the constructor then
\* waits in recv_info("executor")
qc_publish(q) ==
    /\ qcPc[QcEndpoint(q)] = "off"
    /\ ExKey(q) \notin DOMAIN read_json(regFile)
    /\ regFile' = FileOf(SetKey(read_json(regFile), ExKey(q), CommEntry(QcEndpoint(q))))
    /\ qcPc' = [qcPc EXCEPT ![QcEndpoint(q)] = "waiting"]
    /\ UNCHANGED <<xPc, xMode, xSeen, qpu_ids, xSockets, xQueue, xI, xGot,
                   qpus_working, quantum_tasks, xRound, xLog, toEx, toQpu,
                   qcSockets, qcSent, qcGot>>
    /\ ExecFrame

\* AerQCSimulator::AerQCSimulator after publish: recv_info("executor")
\* returns the executor's endpoint, the channel connects to it under the id
\* "executor", and the endpoint is written into the QPU's entry
qc_construct(e) ==
    /\ qcPc[e] = "waiting"
    /\ toQpu[e] # <<>>
    /\ toQpu' = [toQpu EXCEPT ![e] = Tail(@)]
    /\ LET frame == Head(toQpu[e]) IN
        IF frame.id = ExecutorId
        THEN /\ qcSockets' = [qcSockets EXCEPT ![e] =
                    connect_on(@, QcChannel(QpuAt(e)), frame.data, ExecutorId)]
             /\ qcPc' = [qcPc EXCEPT ![e] = "ready"]
             /\ regFile' = IF is_discarded(regFile) THEN regFile
                           ELSE FileOf(SetExecutor(read_json(regFile),
                                                   ExKey(QpuAt(e)), frame.data))
        ELSE UNCHANGED <<qcSockets, qcPc, regFile>>
    /\ UNCHANGED <<xPc, xMode, xSeen, qpu_ids, xSockets, xQueue, xI, xGot,
                   qpus_working, quantum_tasks, xRound, xLog, toEx, qcSent, qcGot>>
    /\ ExecFrame

\* AerQCSimulator::execute, lines 116-119: the task's text goes to the
\* executor; only a non-empty one waits for results
qc_execute(e, circuit) ==
    /\ qcPc[e] = "ready"
    /\ Len(qcSent[e]) < MaxRounds
    /\ LET r == send_frame(qcSockets[e], toEx[e], ExecutorId,
                           Frame(qcSockets[e][ExecutorId].identity, circuit),
                           ExecutorId)
       IN toEx' = [toEx EXCEPT ![e] = r.wire]
    /\ qcSent' = [qcSent EXCEPT ![e] = Append(@, circuit)]
    /\ qcPc' = [qcPc EXCEPT ![e] = IF circuit # "" THEN "awaiting" ELSE "ready"]
    /\ UNCHANGED <<xPc, xMode, xSeen, qpu_ids, xSockets, xQueue, xI, xGot,
                   qpus_working, quantum_tasks, xRound, xLog, toQpu, qcSockets,
                   qcGot, regFile>>
    /\ ExecFrame

\* AerQCSimulator::execute, lines 120-122: recv_info("executor") returns
\* the results
qc_results(e) ==
    /\ qcPc[e] = "awaiting"
    /\ toQpu[e] # <<>>
    /\ toQpu' = [toQpu EXCEPT ![e] = Tail(@)]
    /\ LET frame == Head(toQpu[e]) IN
        IF frame.id = ExecutorId
        THEN /\ qcGot' = [qcGot EXCEPT ![e] = Append(@, frame.data)]
             /\ qcPc' = [qcPc EXCEPT ![e] = "ready"]
        ELSE UNCHANGED <<qcGot, qcPc>>
    /\ UNCHANGED <<xPc, xMode, xSeen, qpu_ids, xSockets, xQueue, xI, xGot,
                   qpus_working, quantum_tasks, xRound, xLog, toEx, qcSockets,
                   qcSent, regFile>>
    /\ ExecFrame

ExecNext ==
    \/ \E m \in ExModes : executor_start(m)
    \/ run_recv_enter
    \/ \E e \in QcEndpoints : run_recv_frame(e)
    \/ \E r \in simulate : run_simulate(r)
    \/ \E e \in QcEndpoints : qc_construct(e)
    \/ \E e \in QcEndpoints, c \in Circuits : qc_execute(e, c)
    \/ \E e \in QcEndpoints : qc_results(e)

(***************************************************************************)
(*                     COUNT KEYS OF AN AER RESULT                         *)
(* convert_standard_results_Aer on the counts of a result. A key is the    *)
(* sequence of its characters; the bits of a std::bitset are the set of    *)
(* the positions that are set.                                             *)
(***************************************************************************)
\* std::bitset<100>
BitsetWidth == 100

\* the value the loop gives a character of the key
HexValue(c) ==
    CASE c = "0" -> 0 [] c = "1" -> 1 [] c = "2" -> 2 [] c = "3" -> 3
      [] c = "4" -> 4 [] c = "5" -> 5 [] c = "6" -> 6 [] c = "7" -> 7
      [] c = "8" -> 8 [] c = "9" -> 9 [] c = "a" -> 10 [] c = "b" -> 11
      [] c = "c" -> 12 [] c = "d" -> 13 [] c = "e" -> 14 [] c = "f" -> 15
      [] OTHER -> 0

\* (value >> j) & 1
BitOf(value, j) == (value \div (2 ^ j)) % 2 = 1

\* lines 73-76: the "0x" prefix is dropped if present
strip_prefix(key) ==
    IF StartsWith(key, <<"0", "x">>) THEN SubSeq(key, 3, Len(key)) ELSE key

\* lines 78-94: the bits set for a key, the last character being the
\* lowest four; a position past the bitset is skipped
hex_to_bits(hex_key) ==
    {p \in 0..(4 * Len(hex_key)) :
        /\ p < 4 * Len(hex_key)
        /\ BitOf(HexValue(hex_key[Len(hex_key) - (p \div 4)]), p % 4)
        /\ p < BitsetWidth}

\* lines 97-100: bits[i] for i from num_clbits - 1 down to 0; operator[] past
\* the bitset is undefined and reads whatever `beyond` says
binary_string(bits, num_clbits, beyond) ==
    [k \in 1..num_clbits |->
        LET i == num_clbits - k
        IN IF i < BitsetWidth THEN (IF i \in bits THEN "1" ELSE "0") ELSE beyond[i]]

\* what reads past the bitset may give
Beyond(num_clbits) == [BitsetWidth..(num_clbits - 1) -> {"0", "1"}]

\* the loop over counts.items(): keys in the order of the object, a later
\* key replacing an earlier one that converts to the same string
RECURSIVE convert_keys(_, _, _, _)
convert_keys(keys, counts, num_clbits, beyond) ==
    IF keys = <<>> THEN [b \in {} |-> 0]
    ELSE LET n == Len(keys)
             rest == convert_keys(SubSeq(keys, 1, n - 1), counts, num_clbits, beyond)
             b == binary_string(hex_to_bits(strip_prefix(keys[n])), num_clbits, beyond)
         IN [x \in DOMAIN rest \cup {b} |-> IF x = b THEN counts[keys[n]] ELSE rest[x]]

\* the order of std::string on the characters of hex keys
HexCode(c) == IF c = "x" THEN 120 ELSE IF HexValue(c) < 10 THEN 48 + HexValue(c)
              ELSE 87 + HexValue(c)

RECURSIVE HexLess(_, _)
HexLess(a, b) ==
    IF b = <<>> THEN FALSE
    ELSE IF a = <<>> THEN TRUE
    ELSE IF HexCode(Head(a)) # HexCode(Head(b)) THEN HexCode(Head(a)) < HexCode(Head(b))
         ELSE HexLess(Tail(a), Tail(b))

RECURSIVE hex_items(_)
hex_items(keys) ==
    IF keys = {} THEN <<>>
    ELSE LET first == CHOOSE k \in keys : \A o \in keys \ {k} : HexLess(k, o)
         IN <<first>> \o hex_items(keys \ {first})

\* hex keys as the AER kernel writes them
Hex(digits) == <<"0", "x">> \o digits

Zeros(n) == [i \in 1..n |-> "0"]

HexKeys ==
    {Hex(<<"0">>), Hex(<<"1">>), Hex(<<"2">>), Hex(<<"3">>), Hex(<<"a">>),
     Hex(<<"1", "f">>), Hex(<<"8">> \o Zeros(24)), Hex(<<"1">> \o Zeros(25))}

\* the results given to the adapter: up to two keys with their counts
CountsObjects ==
    {[k \in ks |-> c[k]] : ks \in {x \in SUBSET HexKeys : Cardinality(x) \in {1, 2}},
                           c \in {[k \in HexKeys |-> 5], [k \in HexKeys |-> HexValue(k[3]) + 1]}}

Clbits == {1, 2, 4, 5, 100, 101}

NoCounts == [k \in {} |-> 0]

CountInit ==
    /\ cvCounts = NoCounts
    /\ cvClbits = 0
    /\ cvOut = NoCounts
    /\ cvCalls = 0

\* convert_standard_results_Aer(res, num_clbits)
convert_standard_results_Aer(counts, num_clbits, beyond) ==
    /\ cvCalls = 0
    /\ cvCounts' = counts
    /\ cvClbits' = num_clbits
    /\ cvOut' = convert_keys(hex_items(DOMAIN counts), counts, num_clbits, beyond)
    /\ cvCalls' = 1
    /\ CountFrame

CountNext ==
    \E counts \in CountsObjects, n \in Clbits :
        \E beyond \in Beyond(n) : convert_standard_results_Aer(counts, n, beyond)

(***************************************************************************)
(*                       BEST LOCAL IPv4 ADDRESS                           *)
(* get_IP_address() walks the list of getifaddrs(). The list is modelled   *)
(* with one record for each interface name, in the order of the name's     *)
(* first entry (the `seen` set skips the later entries of a name):         *)
(*   name      ifa_name                                                    *)
(*   up        IFF_UP in ifa_flags                                         *)
(*   operstate whether /sys/class/net/<name>/operstate reads "up"          *)
(*   ipv4      the interface's first AF_INET address, or NoIPv4            *)
(*   speed     the number in /sys/class/net/<name>/speed, -1 if unreadable *)
(*   hatype    sll_hatype of the interface's AF_PACKET entry               *)
(*   rate      /sys/class/infiniband/<hca>/ports/<port>/rate as value and  *)
(*             unit, or NoRate                                             *)
(***************************************************************************)
MaxIfs == 2

NoIPv4 == ""

Loopback == "127.0.0.1"

NoRate == [val |-> 0, unit |-> ""]

IfNames == {"eth0", "eth1", "ib0"}

AddressOf(name) == "10.0.0." \o name

IsIbName(name) == name = "ib0"

Interfaces ==
    {[name |-> n, up |-> u, operstate |-> o, speed |-> s,
      ipv4 |-> IF a = "own" THEN AddressOf(n) ELSE a,
      hatype |-> IF IsIbName(n) THEN "INFINIBAND" ELSE "ETHER",
      rate |-> IF IsIbName(n) THEN r ELSE NoRate] :
        n \in IfNames, u \in BOOLEAN, o \in BOOLEAN,
        a \in {NoIPv4, Loopback, "own"}, s \in {-1, 100, 1000},
        r \in {NoRate, [val |-> 2, unit |-> "gb"]}}

\* the lists getifaddrs() can give: at most MaxIfs interfaces, distinct names
IfLists ==
    {l \in UNION {[1..k -> Interfaces] : k \in 0..MaxIfs} :
        \A a, b \in 1..Len(l) : l[a].name = l[b].name => a = b}

speed_eth_mbps(i) == IF i.speed > 0 THEN i.speed ELSE -1

\* sscanf(" %lf %15s") of the rate line, then the unit decides
speed_ib_mbps(i) ==
    IF i.rate = NoRate THEN -1
    ELSE IF i.rate.unit = "gb" THEN i.rate.val * 1000
    ELSE IF i.rate.unit = "mb" THEN i.rate.val
    ELSE -1

link_speed_mbps(i) ==
    IF speed_eth_mbps(i) > 0 THEN speed_eth_mbps(i)
    ELSE IF i.hatype = "INFINIBAND" /\ speed_ib_mbps(i) > 0 THEN speed_ib_mbps(i)
    ELSE -1

admin_up(i) == i.up

oper_up(i) == i.operstate

\* the first IPv4 address outside 127.0.0.0/8
get_first_ipv4(i) == i.ipv4 \notin {NoIPv4, Loopback}

\* ifname.substr(0, 2) == "ib"
has_ib_prefix(i) == IsIbName(i.name)

\* the body of the for loop for list entry k, on best = (best_mbps, best_ip)
ip_step(i, best, skip) ==
    IF ~admin_up(i) \/ ~oper_up(i) THEN best
    ELSE IF skip /\ has_ib_prefix(i) THEN best
    ELSE IF ~get_first_ipv4(i) THEN best
    ELSE IF link_speed_mbps(i) <= 0 THEN best
    ELSE IF link_speed_mbps(i) > best.mbps
         THEN [mbps |-> link_speed_mbps(i), ip |-> i.ipv4]
    ELSE best

RECURSIVE ip_scan(_, _, _, _)
ip_scan(head, k, best, skip) ==
    IF k > Len(head) THEN best
    ELSE ip_scan(head, k + 1, ip_step(head[k], best, skip), skip)

\* get_IP_address(); skip tells the two copies of the function apart: one
\* passes over every interface whose name starts with "ib", the other does
\* not. Both return best_ip, which is "" when no interface was chosen
get_IP_address(head, skip) ==
    ip_scan(head, 1, [mbps |-> -1, ip |-> ""], skip).ip

NetInit ==
    /\ ifaddr = <<>>
    /\ ipSkipIb = FALSE
    /\ ipOut = ""
    /\ ipCalls = 0

call_get_IP_address(head, skip) ==
    /\ ipCalls = 0
    /\ ifaddr' = head
    /\ ipSkipIb' = skip
    /\ ipOut' = get_IP_address(head, skip)
    /\ ipCalls' = 1
    /\ NetFrame

NetNext ==
    /\ ipCalls = 0
    /\ \E head \in IfLists, skip \in BOOLEAN : call_get_IP_address(head, skip)

Init == ChanInit /\ RegInit /\ QpuInit /\ TaskInit /\ ExecInit /\ CountInit /\ NetInit

\* communications.json holds the entries of the QPUs that have published,
\* and nothing else has touched it
InitPublished ==
    /\ ChanInit /\ QpuInit /\ TaskInit /\ ExecInit /\ CountInit /\ NetInit
    /\ regFile \in {FileOf(Published(qs)) : qs \in SUBSET ExQpus} \cup {FileEmpty}
    /\ regLock = NoProc
    /\ regPc = [p \in Procs |-> "idle"]
    /\ regOp = [p \in Procs |-> NoOp]
    /\ regJ = [p \in Procs |-> EmptyObject]
    /\ regCalls = 0
    /\ regLin = <<>>
    /\ regInitial = regFile
    /\ regFlock = NoProc
    /\ regSeen = NotRead
    /\ qdPc = "idle"

\* the same, with the registry file not yet created
InitNoFile == Init /\ regFile.empty

NextChannel == ChanNext

NextRegistry == RegNext

SpecChannel == InitNoFile /\ [][NextChannel]_vars

SpecRegistry == Init /\ [][NextRegistry]_vars

\* a registry file whose system calls may fail
NextRegFail ==
    \/ RegNext
    \/ \E p \in Procs : io_fail(p)
    \/ \E p \in Procs, short \in BOOLEAN : write_fail(p, short)

SpecRegFail == Init /\ [][NextRegFail]_vars

\* qpus.json under write_on_file calls and one qdrop --all
NextQdrop ==
    \/ \E p \in Procs, e \in Entries, x \in Suffixes : write_on_file(p, e, x)
    \/ \E p \in Procs : lock(p)
    \/ \E p \in Procs : read_modify(p)
    \/ \E p \in Procs : fail_close(p)
    \/ \E p \in Procs : truncate(p)
    \/ \E p \in Procs : write_json(p)
    \/ \E p \in Procs : unlock(p)
    \/ QdropNext

SpecQdrop == Init /\ [][NextQdrop]_vars

NextQPU == QpuNext

SpecQPU == InitNoFile /\ [][NextQPU]_vars

\* the steps the listen thread takes by itself once recv_data has returned
ListenSteps == recv_rid_push \/ listen_lock \/ listen_push \/ listen_notify

\* the steps the compute thread takes by itself; a wake-up with no
\* notification is never owed to it
ComputeSteps ==
    \/ compute_lock
    \/ compute_wait
    \/ compute_wake
    \/ compute_pop
    \/ compute_update
    \/ \E ok \in BOOLEAN : execute(ok)
    \/ \E d \in BOOLEAN : send_result(d)
    \/ \E d \in BOOLEAN : send_error(d)
    \/ compute_relock

\* the two std::thread of turn_ON are scheduled fairly: a thread that can
\* take its next step takes it, and the backend returns or throws
SpecQPUFair ==
    InitNoFile /\ [][NextQPU]_vars /\ WF_vars(ListenSteps) /\ WF_vars(ComputeSteps)

NextTask == TaskNext

\* the dealer maps of the channels under every connect overload
NextConnect == ConnectNext

SpecConnect == InitNoFile /\ [][NextConnect]_vars

\* communications.json with its two kinds of writers
NextComm == CommNext

SpecComm == Init /\ [][NextComm]_vars

\* a registry file with its writers and a lock-free reader
NextReaders == RegNext \/ read_registry

SpecReaders == Init /\ [][NextReaders]_vars

SpecTask == InitNoFile /\ [][NextTask]_vars

\* the channel of a CC simulator across its execute calls
NextCC == CcNext

SpecCC == InitNoFile /\ [][NextCC]_vars

\* the conversion of the counts of AER results
NextCounts == CountNext

SpecCounts == InitNoFile /\ [][NextCounts]_vars

\* the choice of the local IPv4 address
NextNet == NetNext

SpecNet == InitNoFile /\ [][NextNet]_vars

\* an executor and the QC simulators of the published QPUs
NextExecutor == ExecNext

SpecExecutor == InitPublished /\ [][NextExecutor]_vars

\* the executor and the QC simulators started in any order, on a
\* communications.json that nobody has written yet
NextStartup ==
    \/ \E m \in ExModes : executor_start(m)
    \/ \E q \in ExQpus : qc_publish(q)
    \/ \E e \in QcEndpoints : qc_construct(e)

\* every process is started and runs: the executor is started at some
\* time, and each simulator's constructor takes its steps when it can
SpecStartup ==
    /\ InitNoFile
    /\ [][NextStartup]_vars
    /\ []<>(xPc # "new")
    /\ WF_vars(\E q \in ExQpus : qc_publish(q))
    /\ WF_vars(\E e \in QcEndpoints : qc_construct(e))

(***************************************************************************)
(* C1: per-sender FIFO. For every peer A, the payloads returned by the     *)
(* successive recv_info(A) calls at B are a prefix of the payloads A       *)
(* passed to send_info(., B), in send order, whatever frames of other      *)
(* peers arrive in between and whichever origins B asks for.               *)
(***************************************************************************)
C1_PerSenderFifo ==
    \A p \in Peers : IsPrefix(chReturned[zmq_id(p)], chSent[p])

\* B has returned two frames of one peer, the second of which had waited in
\* the buffer while another origin was being awaited
C1_Witness ==
    \E p \in Peers :
        /\ Len(chReturned[zmq_id(p)]) = 2
        /\ chReturned[zmq_id(p)][1] # chReturned[zmq_id(p)][2]
        /\ \E q \in Peers \ {p} : Len(chRead[zmq_id(q)]) >= 1

(***************************************************************************)
(* C2: no loss, no duplication. At every moment, for every identity, the   *)
(* frames read from the router are exactly the frames already returned     *)
(* followed by the frames held in that identity's buffer.                  *)
(***************************************************************************)
C2_NoLossNoDup ==
    \A o \in Origins : chRead[o] = chReturned[o] \o message_queue[o]

\* a frame was buffered while another origin was awaited, and a later
\* recv_info of its sender returned it
C2_Witness ==
    \E p \in Peers :
        /\ chReturned[zmq_id(p)] # <<>>
        /\ chReturned[zmq_id(p)] = chRead[zmq_id(p)]
        /\ chOrigin = NoOrigin
        /\ \E q \in Peers \ {p} : message_queue[zmq_id(q)] # <<>>

(***************************************************************************)
(* C3: registry linearisability. Whenever no call is inside its locked     *)
(* read-modify-write, the file holds the result of applying the calls      *)
(* made so far one after another, in the order they took the lock, to the  *)
(* initial contents; so concurrent write_on_file calls with distinct keys  *)
(* leave a JSON object holding all their keys. (On a file whose text is    *)
(* not JSON every call fails, one after another as well as concurrently,   *)
(* and the file stays as it was.)                                          *)
(***************************************************************************)
RECURSIVE ApplySeq(_, _)
ApplySeq(j, ops) ==
    IF ops = <<>> THEN j ELSE ApplySeq(ApplyOp(j, Head(ops)), Tail(ops))

C3_Linearisable ==
    (\A p \in Procs : regPc[p] \in {"idle", "opened"}) =>
        IF is_discarded(regInitial)
        THEN regFile = regInitial
        ELSE /\ regFile.valid
             /\ read_json(regFile) = ApplySeq(read_json(regInitial), regLin)
             /\ (regLin # <<>> => ~regFile.empty)
             /\ ((\A i \in 1..Len(regLin) : regLin[i].name = "write") =>
                    \A i \in 1..Len(regLin) :
                       regLin[i].key \in DOMAIN read_json(regFile))

\* two write_on_file calls with distinct keys have finished on a file that
\* held another key, and the file holds the three keys
C3_Witness ==
    /\ \A p \in Procs : regPc[p] = "idle"
    /\ Len(regLin) = 2
    /\ \A i \in 1..2 : regLin[i].name = "write"
    /\ regLin[1].key # regLin[2].key
    /\ {regLin[i].key : i \in 1..2} \subseteq DOMAIN read_json(regFile)
    /\ Cardinality(DOMAIN read_json(regFile)) = 3

(***************************************************************************)
(* Helpers of the QPU claims.                                              *)
(***************************************************************************)
\* the numbers of the replies handed to send_result for message n
AttemptsFor(n) == {i \in 1..Len(replies) : replies[i].n = n}

\* a received message that awaits a reply: a client's message other than
\* CLOSE that recv has returned and for which no send has been attempted yet
AwaitsReply(n) ==
    /\ ~(lpc = "rid" /\ lmsg.n = n)
    /\ ~received[n].error
    /\ received[n].body.kind # "CLOSE"
    /\ AttemptsFor(n) = {}

\* some client's literal CLOSE came before message n, from another client
AfterCloseOfOther(n) ==
    \E j \in 1..(n - 1) :
        /\ ~received[j].error
        /\ received[j].body.kind = "CLOSE"
        /\ received[j].rid # received[n].rid

\* a has_cc task holds endpoints of communications.json only
OnlyEndpoints(task) ==
    /\ \A i \in 1..Len(task.circuit) :
          task.circuit[i].has_qpus =>
             \A k \in 1..Len(task.circuit[i].qpus) :
                task.circuit[i].qpus[k] \in FileEndpoints
    /\ \A k \in 1..Len(task.sending_to) : task.sending_to[k] \in FileEndpoints

(***************************************************************************)
(* C4: every reply is addressed with the routing id of the request that    *)
(* produced it. Whenever the compute thread is about to call send_result   *)
(* for a message, the routing id at the front of rid_queue_ is the one     *)
(* recorded when that message was received.                                *)
(***************************************************************************)
C4_ReplyCarriesRequestRid ==
    cpc \in {"send", "catch"} => rid_front(rid_queue_) = received[cmsg.n].rid

(***************************************************************************)
(* C5: replies are produced in arrival order. The k-th document handed to  *)
(* send_result answers the k-th message the listen thread pushed on the    *)
(* message queue, in every interleaving of the two threads.                *)
(***************************************************************************)
C5_RepliesInArrivalOrder ==
    /\ Len(replies) <= Len(pushed)
    /\ \A k \in 1..Len(replies) : replies[k].n = pushed[k]

\* two messages were queued together (the second arrived before the first
\* was popped) and both have been answered
C5_Witness ==
    /\ Len(replies) = 2
    /\ Len(pushed) = 2
    /\ replies[1].doc = "ERROR"
    /\ replies[2].doc = "result"

(***************************************************************************)
(* C6: CLOSE recovery. A literal CLOSE is neither pushed on the queue nor  *)
(* answered, and the reply to a message that a different client sends      *)
(* after it carries that client's routing id.                              *)
(***************************************************************************)
C6_CloseRecovery ==
    /\ \A i \in 1..Len(pushed) : received[pushed[i]].body.kind # "CLOSE"
    /\ \A i \in 1..Len(replies) :
          /\ received[replies[i].n].body.kind # "CLOSE"
          /\ AfterCloseOfOther(replies[i].n) =>
                replies[i].rid = received[replies[i].n].rid

(***************************************************************************)
(* C7: task errors become ERROR replies and the QPU continues. Once the    *)
(* ERROR document for a failed message has been handed to send_result,     *)
(* the compute thread goes on: no worker thread has terminated.            *)
(***************************************************************************)
C7_ErrorReplyThenContinue ==
    (/\ replies # <<>>
     /\ Last(replies).doc = "ERROR"
     /\ Last(replies).n = cmsg.n)
        => (cpc # "terminated" /\ lpc # "terminated")

(***************************************************************************)
(* C8: a failed send on the client socket is swallowed. Every step in      *)
(* which send_result fails, for a result or for an ERROR document, drops   *)
(* the reply, consumes its routing id and leaves the compute thread on its *)
(* way to the next queued message.                                         *)
(***************************************************************************)
C8_FailedSendSwallowed ==
    [][(Len(replies') = Len(replies) + 1 /\ ~Last(replies').delivered)
          => (rid_queue_' = rid_pop(rid_queue_) /\ cpc' = "relock")]_vars

(***************************************************************************)
(* C9: no routing id is leaked. Every popped message gets exactly one      *)
(* send_result attempt before the next one is popped, and the number of    *)
(* pending routing ids equals the number of received requests that still   *)
(* await their send attempt.                                               *)
(***************************************************************************)
C9_NoRoutingIdLeaked ==
    /\ \A n \in 1..Len(received) : Cardinality(AttemptsFor(n)) <= 1
    /\ cpc \in {"relock", "loop", "start", "wait", "blocked", "woken"} =>
          \A i \in 1..(Len(pushed) - Len(message_queue_)) :
             Cardinality(AttemptsFor(pushed[i])) = 1
    /\ Len(rid_queue_) = Cardinality({n \in 1..Len(received) : AwaitsReply(n)})

(***************************************************************************)
(* C10: at every call of backend.execute on a task whose has_cc is true,   *)
(* the qpus lists of the instructions and sending_to hold only endpoint    *)
(* strings of communications.json, never a logical QPU identifier.         *)
(***************************************************************************)
C10_ExecuteSeesOnlyEndpoints ==
    (cpc = "execute" /\ quantum_task_.has_cc) => OnlyEndpoints(quantum_task_)

(***************************************************************************)
(* Helpers of the QuantumTask claims, stated from the data model and not   *)
(* from the code.                                                          *)
(***************************************************************************)
\* the endpoint an instruction's peer id stands for
PeerEndpoint(id) ==
    IF "executor_endpoint" \in DOMAIN Communications[id]
    THEN Communications[id].executor_endpoint
    ELSE Communications[id].communications_endpoint

\* values a gate consumes: rx|ry|rz 1, r 2, u|cu 3, all others 0
Consumes(name) ==
    IF name \in {"rx", "ry", "rz"} THEN 1
    ELSE IF name = "r" THEN 2
    ELSE IF name \in {"u", "cu"} THEN 3
    ELSE 0

RECURSIVE TotalArity(_)
TotalArity(circuit) ==
    IF circuit = <<>> THEN 0
    ELSE Consumes(Head(circuit).name) + TotalArity(Tail(circuit))

\* the circuit after a positional walk that hands each gate its next values
RECURSIVE Walk(_, _)
Walk(circuit, params) ==
    IF circuit = <<>> THEN <<>>
    ELSE LET a == Consumes(Head(circuit).name)
         IN <<IF a = 0 THEN Head(circuit)
              ELSE [Head(circuit) EXCEPT !.params = SubSeq(params, 1, a)]>>
            \o Walk(Tail(circuit), SubSeq(params, a + 1, Len(params)))

\* the last call was a parameter update on a retained circuit
ParamUpdate == qtBody.kind = "params" /\ qtPrev.circuit # <<>>

\* the peer lists of a task
PeerLists(task) ==
    [circuit |-> [i \in 1..Len(task.circuit) |->
                     <<task.circuit[i].has_qpus, task.circuit[i].qpus>>],
     sending_to |-> task.sending_to]

(***************************************************************************)
(* C11: ingress rewrite. When update_circuit has accepted a has_cc task,   *)
(* every instruction's qpus list holds, position by position, the          *)
(* endpoint of the peer the submitted list named there (executor endpoint  *)
(* when the peer has one), and sending_to holds the communications         *)
(* endpoint of each peer it named.                                         *)
(***************************************************************************)
C11_EveryIdRewritten ==
    (qtStatus = "ok" /\ qtBody.kind = "task" /\ qtBody.has_cc) =>
        /\ Len(qt.circuit) = Len(qtBody.instructions)
        /\ \A i \in 1..Len(qtBody.instructions) :
              qtBody.instructions[i].has_qpus =>
                 qt.circuit[i].qpus =
                    [k \in 1..Len(qtBody.instructions[i].qpus) |->
                        PeerEndpoint(qtBody.instructions[i].qpus[k])]
        /\ qt.sending_to =
              [k \in 1..Len(qtBody.sending_to) |->
                  Communications[qtBody.sending_to[k]].communications_endpoint]

(***************************************************************************)
(* C12: the rewrite happens once. A parameter update leaves every peer     *)
(* list of the task as it was, and the task the executor builds from the   *)
(* serialised form is built without error, has has_cc false and holds the  *)
(* same peer lists as the task the QPU serialised.                         *)
(***************************************************************************)
C12_RewrittenOnce ==
    /\ (qtBody.kind = "params" /\ qtStatus # "new") =>
           PeerLists(qt) = PeerLists(qtPrev)
    /\ (qtStatus = "ok" /\ qtBody.kind = "task" /\ qtBody.has_cc) =>
           OnlyEndpoints(qt)
    /\ (exStatus # "none" /\ exFrom.circuit # <<>>) =>
           /\ exStatus = "ok"
           /\ ~exTask.has_cc
           /\ PeerLists(exTask) = PeerLists(exFrom)

\* a has_cc task was rewritten on ingress, then took a parameter update,
\* and the executor has built its copy from the serialised task
C12_Witness ==
    /\ qtBody = ParamsOne
    /\ qtStatus = "ok"
    /\ qt.has_cc
    /\ qt.sending_to = <<"tcp://q1:5">>
    /\ exStatus = "ok"
    /\ exFrom = qt
    /\ exTask.circuit = qt.circuit

(***************************************************************************)
(* C13: parameter arity. A parameter update on a retained circuit          *)
(* succeeds exactly when the number of values equals the sum of the        *)
(* arities of the circuit's gates.                                         *)
(***************************************************************************)
C13_ArityIff ==
    ParamUpdate =>
        (qtStatus = "ok" <=> Len(qtBody.params) = TotalArity(qtPrev.circuit))

HasPrefix(key, prefix) == \E n \in 0..Len(key) : SubSeq(key, 1, n) = prefix

\* what stands for a SLURM variable in a key
InKey(env) == IF env.set THEN env.value ELSE <<"U", "N", "K", "N", "O", "W", "N">>

\* <job>_<pid>, or <job>_<pid>_<suffix> for a non-empty suffix
KeyScheme(p, suffix) ==
    LET base == InKey(JobEnv(p)) \o <<"_">> \o InKey(PidEnv(p))
    IN IF Len(suffix) = 0 THEN base ELSE base \o <<"_">> \o suffix

(***************************************************************************)
(* C17: remove_from_file. The object a call writes back holds exactly the  *)
(* entries of the object it read whose key does not begin with the prefix, *)
(* each with its value; if no key begins with the prefix it is the object  *)
(* read; and that object is what the file holds when the call is done.     *)
(***************************************************************************)
C17_RemoveExactlyPrefix ==
    \A p \in Procs :
        regOp[p].name = "remove" =>
            /\ regPc[p] = "modified" =>
                  LET j == read_json(regFile)
                  IN /\ DOMAIN regJ[p] =
                           {k \in DOMAIN j : ~HasPrefix(k, regOp[p].key)}
                     /\ \A k \in DOMAIN regJ[p] : regJ[p][k] = j[k]
                     /\ (\A k \in DOMAIN j : ~HasPrefix(k, regOp[p].key)) =>
                           regJ[p] = j
            /\ regPc[p] = "written" => regFile = FileOf(regJ[p])

\* a prefix removed the entry that a write had added, whose key is longer
\* than the prefix, and kept the entry the file held from the start
C17_Witness ==
    /\ \A p \in Procs : regPc[p] = "idle"
    /\ Len(regLin) = 2
    /\ regLin[1].name = "write"
    /\ regLin[2].name = "remove"
    /\ HasPrefix(regLin[1].key, regLin[2].key)
    /\ ForeignKey \in DOMAIN read_json(regInitial)
    /\ DOMAIN read_json(regFile) = {ForeignKey}

(***************************************************************************)
(* C18: write_on_file. The key is <job>_<pid>, with _<suffix> for a        *)
(* non-empty suffix and UNKNOWN for a variable that is not set; the object *)
(* a call writes back is the object it read with that one key set to the   *)
(* entry and every other key as it was; and that object is what the file   *)
(* holds when the call is done.                                            *)
(***************************************************************************)
C18_WriteSetsOneKey ==
    \A p \in Procs :
        regOp[p].name = "write" =>
            /\ regOp[p].key = KeyScheme(p, regOp[p].suffix)
            /\ regPc[p] = "modified" =>
                  LET j == read_json(regFile)
                  IN /\ DOMAIN regJ[p] = DOMAIN j \cup {regOp[p].key}
                     /\ regJ[p][regOp[p].key] = regOp[p].entry
                     /\ \A k \in DOMAIN j \ {regOp[p].key} : regJ[p][k] = j[k]
            /\ regPc[p] = "written" => regFile = FileOf(regJ[p])

\* a process without SLURM_JOB_ID wrote with a suffix twice: the second
\* entry replaced the first and the entry of another process is still there
C18_Witness ==
    /\ \A p \in Procs : regPc[p] = "idle"
    /\ Len(regLin) = 2
    /\ regLin[1] = [name |-> "write", key |-> KeyScheme(1, <<"g">>),
                    entry |-> CommEntry("e1"), suffix |-> <<"g">>]
    /\ regLin[2] = [regLin[1] EXCEPT !.entry = CommEntry("e2")]
    /\ DOMAIN read_json(regFile) = {ForeignKey, KeyScheme(1, <<"g">>)}
    /\ read_json(regFile)[KeyScheme(1, <<"g">>)].communications_endpoint = "e2"
    /\ read_json(regFile)[ForeignKey].communications_endpoint = "e1"

(***************************************************************************)
(* C19: write_on_file on a file that is empty or does not hold JSON. The   *)
(* call does not fail, and the object it writes back holds the new entry   *)
(* and nothing else.                                                       *)
(***************************************************************************)
C19_UnreadableMeansEmpty ==
    \A p \in Procs :
        regOp[p].name = "write" =>
            /\ regPc[p] # "failed"
            /\ (regPc[p] = "modified" /\ (regFile.empty \/ is_discarded(regFile))) =>
                  /\ DOMAIN regJ[p] = {regOp[p].key}
                  /\ regJ[p][regOp[p].key] = regOp[p].entry

\* the file after the first n calls of the lock order, run one after another
FileAfter(n) ==
    IF is_discarded(regInitial) \/ n = 0 THEN regInitial
    ELSE FileOf(ApplySeq(read_json(regInitial), SubSeq(regLin, 1, n)))

\* the only call made on the key of call i is call i
OnlyCallOnKey(i) == \A k \in 1..Len(regLin) : regLin[k].key = regLin[i].key => k = i

(***************************************************************************)
(* C15: no update of communications.json is lost. Once every call has      *)
(* returned on a file that held JSON from the start, the file is a JSON    *)
(* object in which every key published by one call holds the published     *)
(* endpoint and every key given an executor endpoint by one call holds     *)
(* that field.                                                             *)
(***************************************************************************)
C15_NoLostUpdate ==
    (/\ \A p \in Procs : regPc[p] = "idle"
     /\ ~is_discarded(regInitial)
     /\ regFile.valid) =>
        \A i \in 1..Len(regLin) :
            OnlyCallOnKey(i) =>
                /\ regLin[i].key \in DOMAIN read_json(regFile)
                /\ regLin[i].name = "write" =>
                      "communications_endpoint" \in
                          DOMAIN read_json(regFile)[regLin[i].key]
                /\ regLin[i].name = "executor" =>
                      "executor_endpoint" \in
                          DOMAIN read_json(regFile)[regLin[i].key]

(***************************************************************************)
(* C16: partial writes are not observable. Whatever a lock-free reader     *)
(* finds in the file is the complete file as it stood before the first     *)
(* call or after one of the calls made so far, never the empty file that   *)
(* a call in progress has truncated.                                       *)
(***************************************************************************)
C16_NoPartialWriteSeen ==
    regSeen.read => \E n \in 0..Len(regLin) : regSeen.file = FileAfter(n)

(***************************************************************************)
(* C20: connect is idempotent. For every channel and target key for which  *)
(* connect has been called, through whichever overloads and however many   *)
(* times, exactly one dealer socket has been created, and the dealer map   *)
(* holds under that key the socket the first call made: the later calls    *)
(* changed nothing.                                                        *)
(***************************************************************************)
C20_ConnectIdempotent ==
    \A p \in Peers, k \in TargetKeys :
        IF chCalls[p][k] = 0
        THEN k \notin DOMAIN zmq_sockets[p] /\ chCreated[p][k] = 0
        ELSE /\ chCreated[p][k] = 1
             /\ k \in DOMAIN zmq_sockets[p]
             /\ zmq_sockets[p][k] = chFirst[p][k]

\* a channel called connect twice for the executor key, the second time
\* with another endpoint, and twice for an endpoint key
C20_Witness ==
    \E p \in Peers :
        /\ chCalls[p][ExecutorId] = 2
        /\ zmq_sockets[p][ExecutorId].endpoint = EndpointX
        /\ chCalls[p][EndpointB] = 2
        /\ chCalls[p][EndpointX] = 0

(***************************************************************************)
(* C21: send_info(data, target) on a channel with no dealer keyed target   *)
(* throws, sends no frame, and leaves the dealer map and the per-origin    *)
(* buffers as they were: no socket is created implicitly.                  *)
(***************************************************************************)
SendStep(p) == <<chTarget[p], chThrown[p], chSent[p]>>' # <<chTarget[p], chThrown[p], chSent[p]>>

C21_SendUnknownTargetFails ==
    [][\A p \in Peers :
          (SendStep(p) /\ chTarget'[p] \notin DOMAIN zmq_sockets[p])
              => /\ chThrown'[p]
                 /\ UNCHANGED <<zmq_sockets, chWire, chSent, message_queue,
                                chRead, chReturned>>]_vars

\* a peer that has a dealer for B and has sent to it was refused a send to
\* a target it never connected to, while frames are buffered and in flight
C21_Witness ==
    \E p \in Peers :
        /\ chThrown[p]
        /\ chTarget[p] = EndpointX
        /\ DOMAIN zmq_sockets[p] = {EndpointB}
        /\ chWire[p] # <<>>
        /\ \E o \in Origins : message_queue[o] # <<>>

(***************************************************************************)
(* Helpers for the executor claims.                                        *)
(***************************************************************************)
SeqRange(q) == {q[i] : i \in 1..Len(q)}

Occurrences(q, x) == Cardinality({i \in 1..Len(q) : q[i] = x})

\* the rounds completed, followed by the round in progress
RoundsGot == [r \in 1..Len(xLog) |-> xLog[r].got] \o <<xGot>>

\* the message recv_info returned for peer e in a round, if any
RECURSIVE MessagesOf(_, _)
MessagesOf(got, e) ==
    IF got = <<>> THEN <<>>
    ELSE IF Head(got)[1] = e THEN <<Head(got)[2]>> \o MessagesOf(Tail(got), e)
         ELSE MessagesOf(Tail(got), e)

\* every message the executor's recv_info(e) has returned, in order
RECURSIVE ReturnedIn(_, _)
ReturnedIn(rounds, e) ==
    IF rounds = <<>> THEN <<>>
    ELSE MessagesOf(Head(rounds), e) \o ReturnedIn(Tail(rounds), e)

\* the results of the rounds in which e sent a non-empty payload, in order
RECURSIVE ResultsFor(_, _)
ResultsFor(log, e) ==
    IF log = <<>> THEN <<>>
    ELSE (IF \E m \in SeqRange(MessagesOf(Head(log).got, e)) : m # ""
          THEN <<Head(log).result>> ELSE <<>>) \o ResultsFor(Tail(log), e)

DataOf(frames) == [i \in 1..Len(frames) |-> frames[i].data]

\* the result strings that reached QPU e or are on their way to it
ResultsTo(e) ==
    qcGot[e] \o DataOf(IF qcPc[e] = "waiting" /\ toQpu[e] # <<>>
                        THEN Tail(toQpu[e]) ELSE toQpu[e])

(***************************************************************************)
(* C22: executor fan-out. In every round the result string is sent to      *)
(* exactly the peers whose payload of that round was non-empty, once each; *)
(* a peer whose payload was empty gets nothing in that round, whatever it  *)
(* sent in earlier rounds. So what each peer is sent over time is the      *)
(* results of exactly the rounds it contributed to.                        *)
(***************************************************************************)
C22_FanOutToContributors ==
    /\ \A r \in 1..Len(xLog), e \in QcEndpoints :
          Occurrences(xLog[r].sent, e) =
              IF \E m \in SeqRange(MessagesOf(xLog[r].got, e)) : m # "" THEN 1 ELSE 0
    /\ \A e \in QcEndpoints : ResultsTo(e) = ResultsFor(xLog, e)

\* two rounds with two peers: both contributed to the first, only one to
\* the second, and the results of the rounds differ
C22_Witness ==
    /\ Len(xLog) = 2
    /\ Len(qpu_ids) = 2
    /\ Len(xLog[1].sent) = 2
    /\ Len(xLog[2].sent) = 1
    /\ xLog[1].result # xLog[2].result
    /\ \E e \in QcEndpoints : Len(qcGot[e]) = 2

(***************************************************************************)
(* C23: executor round barrier. A round is simulated only after recv_info  *)
(* has returned one payload from every registered peer, visited in         *)
(* registration order; so the rounds completed never exceed the payloads   *)
(* the slowest registered peer has sent, and no result of a round is sent  *)
(* before that.                                                            *)
(***************************************************************************)
C23_RoundBarrier ==
    /\ \A r \in 1..Len(xLog) :
          [i \in 1..Len(xLog[r].got) |-> xLog[r].got[i][1]] = qpu_ids
    /\ xPc \in {"loop", "recv"} =>
          [i \in 1..Len(xGot) |-> xGot[i][1]] = SubSeq(qpu_ids, 1, xI - 1)
    /\ \A e \in SeqRange(qpu_ids) :
          /\ xRound <= Len(qcSent[e])
          /\ Len(ResultsTo(e)) <= xRound

\* in the second round the executor waits for the first of two peers while
\* the payload of the second is already buffered
C23_Witness ==
    /\ Len(qpu_ids) = 2
    /\ xRound = 1
    /\ xPc = "recv"
    /\ xI = 1
    /\ xQueue[qpu_ids[2]] # <<>>
    /\ qcSent[qpu_ids[1]] = <<"c">>

(***************************************************************************)
(* C24: executor startup selection. The executor connects to, and sends    *)
(* its endpoint to, exactly the entries whose key starts with the job id   *)
(* (default mode) or ends with _<group_id> (group mode), whatever keys the *)
(* file holds.                                                             *)
(***************************************************************************)
EndsWith(key, tail) ==
    Len(tail) <= Len(key) /\ SubSeq(key, Len(key) - Len(tail) + 1, Len(key)) = tail

Chosen(key, mode) ==
    IF mode.group THEN EndsWith(key, <<"_">> \o mode.id) ELSE StartsWith(key, mode.id)

ChosenEndpoints ==
    LET j == read_json(xSeen.file)
    IN {j[k].communications_endpoint : k \in {x \in DOMAIN j : Chosen(x, xMode)}}

C24_StartupSelection ==
    xPc \in {"loop", "recv"} =>
        /\ SeqRange(qpu_ids) = ChosenEndpoints
        /\ DOMAIN xSockets = ChosenEndpoints
        /\ \A e \in QcEndpoints :
              (qcPc[e] = "waiting" /\ toQpu[e] # <<>>) => e \in ChosenEndpoints

(***************************************************************************)
(* C26: identity matches the published endpoint. A channel built with an   *)
(* empty id stamps its frames with its bound endpoint, which is the        *)
(* communications_endpoint it publishes; so recv_info with the published   *)
(* endpoint of a sender as origin returns exactly that sender's frames, in *)
(* the order sent.                                                         *)
(***************************************************************************)
C26_IdentityIsPublishedEndpoint ==
    \A q \in ExQpus :
        LET e == QcEndpoint(q)
            j == read_json(regInitial)
        IN /\ ExKey(q) \in DOMAIN j =>
                 j[ExKey(q)].communications_endpoint = QcChannel(q).zmq_id
           /\ \A i \in 1..Len(toEx[e]) : toEx[e][i].id = e
           /\ ReturnedIn(RoundsGot, e) \o xQueue[e] \o DataOf(toEx[e]) = qcSent[e]

\* recv_info(e) has returned both payloads of one QPU, and a payload of
\* the other QPU came in between
C26_Witness ==
    \E e \in QcEndpoints, o \in QcEndpoints :
        /\ e # o
        /\ ReturnedIn(RoundsGot, e) = <<"c", "">>
        /\ qcSent[e] = <<"c", "">>
        /\ Len(ReturnedIn(RoundsGot, o)) >= 1

(***************************************************************************)
(* C25: CC backend. AerCCSimulator::execute connects to the task's         *)
(* sending_to before the kernel runs, so while the kernel runs a dealer    *)
(* exists for every endpoint of sending_to, and each of these dealers      *)
(* stamps the bound endpoint of the QPU's channel on its frames. The call  *)
(* is connect(sending_to, force_endpoint = false): the identity is the     *)
(* channel's own id, which is its bound endpoint because the simulator     *)
(* builds its channel without an id.                                       *)
(***************************************************************************)
KernelHasDealers(p) ==
    \A e \in SeqRange(ccTask[p].sending_to) :
        /\ e \in DOMAIN zmq_sockets[p]
        /\ zmq_sockets[p][e].endpoint = e
        /\ zmq_sockets[p][e].identity = zmq_endpoint(p)

C25_ConnectedBeforeKernel ==
    \A p \in CcPeers :
        ccPc[p] = "kernel" => (KernelHasDealers(p) /\ ~chForced[p])

\* C25 as stated: the call is connect(sending_to, force_endpoint = true)
C25_ConnectForced ==
    \A p \in CcPeers :
        ccPc[p] = "kernel" => (KernelHasDealers(p) /\ chForced[p])

\* the kernel of a dynamic task with two peers runs and has sent a
\* measurement to one of them
C25_Witness ==
    \E p \in CcPeers :
        /\ ccPc[p] = "kernel"
        /\ ccTask[p].is_dynamic
        /\ ccTask[p].sending_to = <<EndpointB, EndpointX>>
        /\ chSent[p] # <<>>
        /\ ~chThrown[p]

(***************************************************************************)
(* C27: an entry of communications.json holds executor_endpoint exactly    *)
(* when its process is a QC simulator that has finished construction.      *)
(* publish writes an entry with communications_endpoint only;              *)
(* write_executor_endpoint adds executor_endpoint under the key publish    *)
(* used, and keeps communications_endpoint and every other entry. So once  *)
(* every call has returned, each key that was published holds              *)
(* communications_endpoint, and holds executor_endpoint if and only if     *)
(* write_executor_endpoint was then called for it.                         *)
(***************************************************************************)
Publishes(k) == {i \in 1..Len(regLin) : regLin[i].name = "write" /\ regLin[i].key = k}

Announces(k) == {i \in 1..Len(regLin) : regLin[i].name = "executor" /\ regLin[i].key = k}

\* the calls made on key k are those of a constructor: publish, and for a
\* QC simulator write_executor_endpoint after it
ConstructorCalls(k) ==
    /\ Cardinality(Publishes(k)) = 1
    /\ Cardinality(Announces(k)) <= 1
    /\ \A i \in Publishes(k), x \in Announces(k) : i < x

C27_ExecutorEndpointIffQC ==
    (/\ \A p \in Procs : regPc[p] = "idle"
     /\ ~is_discarded(regInitial)
     /\ regFile.valid) =>
        \A k \in RegKeys :
            ConstructorCalls(k) =>
                /\ k \in DOMAIN read_json(regFile)
                /\ "communications_endpoint" \in DOMAIN read_json(regFile)[k]
                /\ "executor_endpoint" \in DOMAIN read_json(regFile)[k]
                       <=> Announces(k) # {}

(***************************************************************************)
(* C28: count keys of an AER result. Every hex key whose value is below    *)
(* 2^num_clbits is converted to a binary string of exactly num_clbits      *)
(* characters, most-significant bit first, with the value of the hex key;  *)
(* distinct hex keys give distinct binary keys, each with the count of its *)
(* hex key.                                                                *)
(***************************************************************************)
\* the positions of the ones of a binary string, the last character being
\* position 0
OnesOf(b) == {p \in 0..(Len(b) - 1) : b[Len(b) - p] = "1"}

\* the positions of the ones of the number a hex key writes
ValueBits(key) ==
    LET digits == SubSeq(key, 3, Len(key))
    IN {p \in 0..(4 * Len(digits)) :
           /\ p < 4 * Len(digits)
           /\ BitOf(HexValue(digits[Len(digits) - (p \div 4)]), p % 4)}

Below(key, num_clbits) == \A p \in ValueBits(key) : p < num_clbits

C28_CountKeysBinary ==
    (cvCalls = 1 /\ \A k \in DOMAIN cvCounts : Below(k, cvClbits)) =>
        /\ \A k \in DOMAIN cvCounts :
              \E b \in DOMAIN cvOut :
                  /\ Len(b) = cvClbits
                  /\ OnesOf(b) = ValueBits(k)
                  /\ cvOut[b] = cvCounts[k]
        /\ Cardinality(DOMAIN cvOut) = Cardinality(DOMAIN cvCounts)

(***************************************************************************)
(* C30: every read or write of the QPU message queue (push, empty, front,  *)
(* pop) is performed while holding queue_mutex_, on every path of both     *)
(* worker threads, including the paths of the compute loop that go through *)
(* an exception handler. The compute thread reads the queue in the         *)
(* predicate of the wait and in the test of the inner loop, and takes      *)
(* front and pop in the try block; the listen thread pushes inside its     *)
(* lock_guard. A thread that stands before one of these accesses holds the *)
(* mutex, and the queue changes only in a step of the thread holding it.   *)
(***************************************************************************)
\* the compute thread stands before empty() of the wait predicate or of the
\* inner loop, and so before front() and pop()
ComputeAtQueue == cpc \in {"wait", "loop"}

\* the listen thread stands inside its lock_guard, before push()
ListenAtQueue == lpc = "locked"

C30_QueueUnderMutex ==
    /\ [](ComputeAtQueue => queue_mutex_ = "compute")
    /\ [](ListenAtQueue => queue_mutex_ = "listen")
    /\ [][message_queue_' # message_queue_ =>
              \/ queue_mutex_ = "compute" /\ ComputeAtQueue
              \/ queue_mutex_ = "listen" /\ ListenAtQueue]_vars

\* the compute thread has been through the second handler (an ERROR
\* document was sent), has taken the mutex again and tests a queue that
\* holds a message
C30_Witness ==
    /\ cpc = "loop"
    /\ queue_mutex_ = "compute"
    /\ message_queue_ # <<>>
    /\ \E i \in 1..Len(replies) : replies[i].doc = "ERROR" /\ replies[i].n = cmsg.n

(***************************************************************************)
(* C29: no lost wake-up. The compute thread never stays blocked in the     *)
(* condition-variable wait while the message queue is non-empty, and every *)
(* pushed message is eventually dequeued, under fair scheduling of the two *)
(* threads and a backend that returns or throws.                           *)
(***************************************************************************)
InQueue(n) == \E i \in 1..Len(message_queue_) : message_queue_[i].n = n

Dequeued(n) == n \in SeqRange(pushed) /\ ~InQueue(n)

\* a blocked wait over a non-empty queue is left
WakeUpNotLost == (cpc = "blocked" /\ message_queue_ # <<>>) ~> (cpc # "blocked")

\* a blocked wait over a non-empty queue has its notification pending
NotifyPending == (cpc = "blocked" /\ message_queue_ # <<>>) => lpc = "notify"

\* every pushed message is dequeued unless the process is brought down
DequeuedUnlessTerminated ==
    \A n \in 1..MaxMsgs : InQueue(n) ~> (Dequeued(n) \/ cpc = "terminated")

C29_NoLostWakeup ==
    /\ WakeUpNotLost
    /\ \A n \in 1..MaxMsgs : InQueue(n) ~> Dequeued(n)

(***************************************************************************)
(* C31: queue_mutex_ is not held while backend.execute or                  *)
(* server.send_result runs. From the unlock after pop until lock.lock()    *)
(* the compute thread does not hold the mutex, so a listen thread that has *)
(* received a message finds the mutex free, and the compute thread holds   *)
(* the mutex again when it tests the queue.                                *)
(***************************************************************************)
\* the compute thread is between lock.unlock() of line 69 and lock.lock() of
\* line 83
ComputeOutsideLock == cpc \in {"update", "execute", "send", "catch", "relock"}

C31_UnlockedWhileExecuting ==
    /\ ComputeOutsideLock => queue_mutex_ # "compute"
    /\ (ComputeOutsideLock /\ lpc = "lock") => queue_mutex_ = NoThread
    /\ cpc = "loop" => queue_mutex_ = "compute"

\* backend.execute is running on one message and the listen thread holds
\* the mutex to push the next
C31_Witness ==
    /\ cpc = "execute"
    /\ lpc = "locked"
    /\ queue_mutex_ = "listen"
    /\ lmsg.body.kind # "CLOSE"

(***************************************************************************)
(* C32: receive error on the client socket. recv_data returns the text     *)
(* CLOSE and records no routing id; the listen thread pushes nothing on    *)
(* the queue and notifies nobody, re-accepts and receives again; a message *)
(* received afterwards is pushed on the queue.                             *)
(***************************************************************************)
\* the message the listen thread holds came from a failed receive
FromError(m) == m.n \in 1..Len(received) /\ received[m.n].error

\* the listen thread is done with received message n
Handled(n) == lmsg.n > n \/ (lmsg.n = n /\ lpc \in {"notify", "recv"})

\* the step of recv_data that fails
RecvFails == Len(received') = Len(received) + 1 /\ received'[Len(received')].error

\* the step in which the listen thread leaves its lock_guard
LeavesGuard == queue_mutex_ = "listen" /\ queue_mutex_' = NoThread

C32_ReceiveError ==
    /\ [][RecvFails => /\ rid_queue_' = rid_queue_
                        /\ lmsg'.body = Close
                        /\ message_queue_' = message_queue_]_vars
    /\ [][(LeavesGuard /\ FromError(lmsg)) =>
              /\ message_queue_' = message_queue_
              /\ pushed' = pushed
              /\ cpc' = cpc
              /\ lpc' = "recv"]_vars
    /\ [](lpc = "notify" => ~FromError(lmsg))
    /\ [](\A n \in 1..Len(received) :
             (Handled(n) /\ received[n].body.kind # "CLOSE") => n \in SeqRange(pushed))

\* a receive failed, and the message received after it has been pushed
C32_Witness ==
    /\ Len(received) = 2
    /\ received[1].error
    /\ received[2].body.kind # "CLOSE"
    /\ pushed = <<2>>
    /\ rid_queue_ = <<received[2].rid>>

(***************************************************************************)
(* C33: a QC backend and the executor agree on who waits. The r-th message *)
(* the executor takes from a QPU is the r-th circuit that QPU sent. The    *)
(* QPU waits in recv_info("executor") after a circuit if and only if the   *)
(* circuit is not the empty string, which is when the executor counts it   *)
(* as working in that round and sends it a result. So a QPU waits only for *)
(* a result that is owed to it, and no result is in flight to a QPU that   *)
(* is not waiting.                                                         *)
(***************************************************************************)
NonEmpty(q) == Cardinality({i \in 1..Len(q) : q[i] # ""})

IsPrefixOf(a, b) == Len(a) <= Len(b) /\ a = SubSeq(b, 1, Len(a))

C33_AgreeOnWaiting ==
    \A e \in SeqRange(qpu_ids) :
        /\ IsPrefixOf(ReturnedIn(RoundsGot, e), qcSent[e])
        /\ \A r \in 1..Len(xLog) :
              /\ r <= Len(qcSent[e])
              /\ e \in SeqRange(xLog[r].sent) <=> qcSent[e][r] # ""
        /\ qcPc[e] = "awaiting" <=>
              /\ qcSent[e] # <<>>
              /\ qcSent[e][Len(qcSent[e])] # ""
              /\ Len(qcGot[e]) < NonEmpty(qcSent[e])
        /\ qcPc[e] = "ready" => toQpu[e] = <<>> /\ Len(qcGot[e]) = NonEmpty(qcSent[e])
        /\ Len(ResultsTo(e)) <= NonEmpty(qcSent[e])

\* in one round a QPU sent the empty string, did not wait and was sent
\* nothing, while another sent a circuit, waited and got the result
C33_Witness ==
    /\ Len(xLog) >= 1
    /\ \E e, f \in SeqRange(qpu_ids) :
          /\ qcSent[e][1] = ""
          /\ e \notin SeqRange(xLog[1].sent)
          /\ qcGot[e] = <<>>
          /\ qcSent[f][1] # ""
          /\ f \in SeqRange(xLog[1].sent)
          /\ qcGot[f] = <<xLog[1].result>>

(***************************************************************************)
(* C34: the server's queue of pending routing ids is never accessed by the *)
(* listen thread (push in recv) and the compute thread (front and pop in   *)
(* send) at the same time. Whenever the listen thread stands at the push   *)
(* and the compute thread at front and pop, a lock held by one of them     *)
(* keeps the other out.                                                    *)
(***************************************************************************)
C34_RidQueueAccessOrdered ==
    (lpc = "rid" /\ cpc \in {"send", "catch"}) => queue_mutex_ \in {"listen", "compute"}

(***************************************************************************)
(* C35: a message whose processing fails inside update_circuit or          *)
(* update_params_ leaves the task retained by the compute thread exactly   *)
(* as it was before that message: circuit, config, sending_to, is_dynamic, *)
(* has_cc and id are all unchanged.                                        *)
(***************************************************************************)
C35_FailedUpdateKeepsTask == qtStatus = "throw" => qt = qtPrev

(***************************************************************************)
(* C36: startup rendezvous. Every QC QPU that publishes its communications *)
(* endpoint eventually receives the executor's endpoint through            *)
(* recv_info("executor") and finishes construction, in every order in      *)
(* which the QPU processes and the executor process start.                 *)
(***************************************************************************)
\* QPU q has published and waits, and the executor that has started is the
\* one of its job or group
WaitsForExecutor(q) ==
    /\ qcPc[QcEndpoint(q)] = "waiting"
    /\ xPc # "new"
    /\ Chosen(ExKey(q), xMode)

\* the rendezvous of the QPUs whose entry the executor's constructor read
RendezvousIfSeen ==
    \A q \in ExQpus :
        (WaitsForExecutor(q) /\ ExKey(q) \in DOMAIN read_json(xSeen.file))
            ~> (qcPc[QcEndpoint(q)] \in {"ready", "awaiting"})

C36_StartupRendezvous ==
    \A q \in ExQpus :
        WaitsForExecutor(q) ~> (qcPc[QcEndpoint(q)] \in {"ready", "awaiting"})

(***************************************************************************)
(* C37: if write_on_file or remove_from_file fails at any step (open,      *)
(* lock, read, truncate, write), the caller gets a single error and the    *)
(* registry file's contents are the same as before the call. Stated for    *)
(* the first call on the file, with no other call running: when it is in   *)
(* its catch block, about to throw its one runtime_error, the file is as   *)
(* it was before the call.                                                 *)
(***************************************************************************)
C37_FailedCallKeepsFile ==
    \A p \in Procs :
        (regCalls = 1 /\ regPc[p] = "failed") => regFile = regInitial

(***************************************************************************)
(* C38: a parameter update received while no circuit is retained (no task  *)
(* has been received yet) fails in update_params_, changes nothing in the  *)
(* retained task, and is answered with an ERROR document instead of a      *)
(* result.                                                                 *)
(***************************************************************************)
\* received message n is a parameter update and no task came before it
ParamsBeforeAnyTask(n) ==
    /\ n \in 1..Len(received)
    /\ received[n].body.kind = "params"
    /\ \A i \in 1..(n - 1) : received[i].body.kind # "task"

Perms(n) == {f \in [1..n -> 1..n] : \A a, b \in 1..n : f[a] = f[b] => a = b}

\* what the file holds after the calls of regLin and one reset, one after
\* another: the writes that come after the reset, applied to {}
SerialResults ==
    LET n == Len(regLin)
    IN  {ApplySeq(EmptyObject, [i \in 1..(n - k) |-> regLin[f[k + i]]]) :
            f \in Perms(n), k \in 0..n}

C39_ResetAtomic ==
    (qdPc = "done" /\ \A p \in Procs : regPc[p] = "idle") =>
        /\ ~regFile.empty
        /\ regFile.valid
        /\ read_json(regFile) \in SerialResults

\* the reset and a write_on_file call have both finished
C39_Finished ==
    /\ qdPc = "done"
    /\ \A p \in Procs : regPc[p] = "idle"
    /\ regLin # <<>>

(***************************************************************************)
(* C40: get_IP_address returns the IPv4 address of the interface with the  *)
(* highest link speed among all interfaces that are not loopback, are      *)
(* administratively and operationally up and have an IPv4 address,         *)
(* Ethernet and InfiniBand alike; between interfaces of equal speed the    *)
(* first in enumeration order wins.                                        *)
(***************************************************************************)
\* list entry k is up, has an IPv4 address that is not loopback, and a
\* link speed
Candidate(k) ==
    /\ k \in 1..Len(ifaddr)
    /\ ifaddr[k].up /\ ifaddr[k].operstate
    /\ ifaddr[k].ipv4 \notin {NoIPv4, Loopback}
    /\ link_speed_mbps(ifaddr[k]) > 0

\* the fastest candidate, the first of them in the list
Best(k) ==
    /\ Candidate(k)
    /\ \A m \in 1..Len(ifaddr) :
          Candidate(m) =>
             \/ link_speed_mbps(ifaddr[m]) < link_speed_mbps(ifaddr[k])
             \/ link_speed_mbps(ifaddr[m]) = link_speed_mbps(ifaddr[k]) /\ k <= m

C40_BestLocalIPv4 ==
    ipCalls = 1 => \A k \in 1..Len(ifaddr) : Best(k) => ipOut = ifaddr[k].ipv4

\* the copy of the function that does not look at the name makes that choice
C40_CopyWithoutSkip ==
    (ipCalls = 1 /\ ~ipSkipIb) =>
        /\ \A k \in 1..Len(ifaddr) : Best(k) => ipOut = ifaddr[k].ipv4
        /\ (\A k \in 1..Len(ifaddr) : ~Candidate(k)) => ipOut = ""

=============================================================================
